---- MODULE Spec2Model ----
(***************************************************************************)
(* State-machine model of the ImageShield infringement-report backend.     *)
(*                                                                         *)
(* The repository holds three variants of the processor Lambda             *)
(* (exports.unifiedHandler), two of them behind an API handler:            *)
(*   "batched"     src/unnamed/part_000 (processSearch / processImage)     *)
(*                 fronted by src/unnamed/part_001 (handleInitiateSearch)  *)
(*   "sequential"  src/unifiedHandler.js:506-623, fronted by               *)
(*                 src/handler.js (handleUpload)                           *)
(*   "synchronous" src/unifiedHandler.js:27-489, which answers the request *)
(*                 itself                                                  *)
(* Only one variant is deployed at a time; `variant` records which.        *)
(***************************************************************************)
EXTENDS Integers, Sequences, FiniteSets, TLC

VARIABLES
    variant,    \* which source variant is deployed
    store,      \* the status table: identifier -> status record
    artifacts,  \* keys present under temp-results/ in the bucket
    saved,      \* items put to the SearchResults table
    pending,    \* processor events dispatched (lambda.invoke) and not yet started
    runs,       \* processor invocations, in order of start
    api,        \* the API handler invocation in progress
    resp,       \* the response the submitting handler (handleInitiateSearch,
                \* handleUpload) returned last
    nextId,     \* requests submitted so far: identifiers uuidv4() has handed to
                \* handleInitiateSearch, entries posted to handleUpload, or
                \* invocations of the synchronous handler
    searchResults,  \* the module-level `let searchResults` of the synchronous
                    \* handler, which lives as long as the process
    polled,     \* identifier -> the answer the status endpoint gave last for it
    cachedSecrets,  \* the module-level `let cachedSecrets` of utils.js
    secretCalls     \* the calls of getSecrets made in the process, in order of start

vars == <<variant, store, artifacts, saved, pending, runs, api, resp, nextId, searchResults,
          polled, cachedSecrets, secretCalls>>

----------------------------------------------------------------------------
(* Bounds of the model *)

MaxCand == 3         \* items the providers return in one behaviour, over all runs
MaxEntries == 2      \* entries posted to /upload in one behaviour, over all calls
MaxHits == 4         \* items the four text queries of one examined call return

(* The batch width, a bound of the model: the source sets 50, and the      *)
(* model scales it down so that a candidate list of a few entries spans    *)
(* more than one batch.                                                    *)
CONCURRENT_PROCESSING == 2

\* the identifiers a status record can have, and the ones uuidv4() hands
\* to handleInitiateSearch, in order
Ids == {1, 2}
Uuids == <<1>>
Urls == {"u1", "u2"}
Absent == -1

----------------------------------------------------------------------------
(* Helpers *)

Min(a, b) == IF a < b THEN a ELSE b

Range(s) == {s[k] : k \in DOMAIN s}

\* Math.round(num / den) for num >= 0, den > 0 (round half up)
MathRound(num, den) == (2 * num + den) \div (2 * den)

\* Array.prototype.slice(from, to) on a 0-based array held as a 1-based sequence
Slice(s, from, to) == SubSeq(s, from + 1, Min(to, Len(s)))

RECURSIVE Flat(_)
Flat(ss) == IF ss = <<>> THEN <<>> ELSE Head(ss) \o Flat(Tail(ss))

SeqsUpTo(S, n) == UNION {[1..k -> S] : k \in 0..n}

----------------------------------------------------------------------------
(* The status table (SearchMetadata / ImageSearchResults) *)

\* the `results` attribute: absent, the array [] of the initial item, or
\* the object { bing: [...], google: [...] } the batched processor writes
NoResults == [kind |-> "absent", bing |-> <<>>, google |-> <<>>]
EmptyArray == [kind |-> "array", bing |-> <<>>, google |-> <<>>]
ResultsObject(m) == [kind |-> "object", bing |-> m.bing, google |-> m.google]

\* no item under the key
NoRecord ==
    [status |-> "none", progress |-> Absent, results |-> NoResults,
     matches |-> <<>>, totalProcessed |-> Absent, totalAvailable |-> Absent]

\* the default `additional = {}` of updateSearchStatus
NoAdditional == [given |-> FALSE, totalProcessed |-> Absent, totalAvailable |-> Absent]
Additional(p, t) == [given |-> TRUE, totalProcessed |-> p, totalAvailable |-> t]

\* updateSearchStatus: a partial update (an upsert) of the item: status and
\* progress always, results only when the argument has keys, and each
\* entry of `additional`
updateSearchStatus(rec, status, progress, results, additional) ==
    [rec EXCEPT
        !.status = status,
        !.progress = progress,
        !.results = IF results.kind = "object" THEN results ELSE @,
        !.totalProcessed = IF additional.given THEN additional.totalProcessed ELSE @,
        !.totalAvailable = IF additional.given THEN additional.totalAvailable ELSE @]

\* the item handleInitiateSearch puts before it dispatches the processor
InitialMetadata ==
    [status |-> "processing", progress |-> 0, results |-> EmptyArray,
     matches |-> <<>>, totalProcessed |-> Absent, totalAvailable |-> Absent]

Terminal(rec) == rec.status \in {"completed", "failed"}

----------------------------------------------------------------------------
(* processImage: the unit of work of one candidate (batched variant) *)

FetchOutcomes == {"ok", "error", "empty", "undecodable"}
CompareOutcomes == {"match", "matchUnsaved", "nomatch", "throw"}

\* a unit as batch.map(result => processImage(result, s3Key)) starts it:
\* `batch` is the loop index i of its batch, `key` stands for the uuid in
\* temp-results/<processId>.jpg, `cleanup` records what became of the
\* DeleteObjectCommand of the finally block, `rank` the position of the unit
\* among the units of its run in order of completion (0 while it runs)
NewUnit(cand, batch, key) ==
    [cand |-> cand, batch |-> batch, key |-> key, pc |-> "fetch", result |-> <<>>,
     fate |-> "pending", cleanup |-> "none", settled |-> "pending", rank |-> 0]

\* AfterFetch without the outer try/catch: a fetch error or an undecodable
\* payload escapes processImage and the promise rejects
AfterFetchUncaught(u, o) ==
    IF o = "ok"
    THEN [u EXCEPT !.pc = "upload"]
    ELSE [u EXCEPT !.pc = "done", !.fate = "failed", !.settled = "rejected"]

\* axios.get + the empty-payload check + Jimp.read: a fetch error or an
\* empty payload throws to the outer catch, an undecodable payload returns
\* null from inside the try; all three run the finally block next
AfterFetch(u, o) ==
    IF o = "ok"
    THEN [u EXCEPT !.pc = "upload"]
    ELSE [u EXCEPT !.pc = "cleanup", !.fate = "failed"]

\* PutObjectCommand: a failure throws to the outer catch
AfterUpload(u, ok) ==
    IF ok
    THEN [u EXCEPT !.pc = "compare"]
    ELSE [u EXCEPT !.pc = "cleanup", !.fate = "failed"]

\* AfterCompare without the check of FaceMatches.length: every compared
\* candidate is saved and returned as a match
AfterCompareAlwaysMatch(u, o) ==
    CASE o \in {"match", "nomatch"} ->
            [u EXCEPT !.pc = "cleanup", !.result = <<u.cand>>, !.fate = o]
      [] o = "matchUnsaved" -> [u EXCEPT !.pc = "cleanup", !.fate = "matchUnsaved"]
      [] OTHER -> [u EXCEPT !.pc = "cleanup", !.fate = "failed"]

\* AfterCompare with the deletion at the end of the try block instead of
\* in a finally block: a comparator error skips it
AfterCompareNoFinally(u, o) ==
    CASE o = "match" -> [u EXCEPT !.pc = "cleanup", !.result = <<u.cand>>, !.fate = "match"]
      [] o = "matchUnsaved" -> [u EXCEPT !.pc = "cleanup", !.fate = "matchUnsaved"]
      [] o = "nomatch" -> [u EXCEPT !.pc = "cleanup", !.fate = "nomatch"]
      [] OTHER -> [u EXCEPT !.pc = "done", !.fate = "failed", !.settled = "resolved"]

\* CompareFacesCommand and, on a match, dynamoDB.put of the match; both are
\* inside the inner try, so a comparator error and a failed put are logged
\* by the same catch and the unit falls through to `return null`
AfterCompare(u, o) ==
    CASE o = "match" -> [u EXCEPT !.pc = "cleanup", !.result = <<u.cand>>, !.fate = "match"]
      [] o = "matchUnsaved" -> [u EXCEPT !.pc = "cleanup", !.fate = "matchUnsaved"]
      [] o = "nomatch" -> [u EXCEPT !.pc = "cleanup", !.fate = "nomatch"]
      [] OTHER -> [u EXCEPT !.pc = "cleanup", !.fate = "failed"]

\* AfterCleanup without the try/catch around DeleteObjectCommand: a failed
\* deletion throws out of the finally block and replaces the value returned
AfterCleanupEscalates(u, ok) ==
    IF ok
    THEN [u EXCEPT !.pc = "done", !.settled = "resolved", !.cleanup = "deleted"]
    ELSE [u EXCEPT !.pc = "done", !.settled = "rejected", !.cleanup = "failed",
                   !.result = <<>>]

\* the finally block: DeleteObjectCommand in its own try/catch, so the
\* promise resolves whether or not the deletion succeeded
AfterCleanup(u, ok) ==
    [u EXCEPT !.pc = "done", !.settled = "resolved",
              !.cleanup = IF ok THEN "deleted" ELSE "failed"]

\* the bucket after DeleteObjectCommand was attempted
Deleted(keys, key, ok) == IF ok THEN keys \ {key} ELSE keys

\* the units that have returned
Completed(units) == Cardinality({j \in DOMAIN units : units[j].pc = "done"})

InFlight(units) == {j \in DOMAIN units : units[j].pc # "done"}

----------------------------------------------------------------------------
(* The providers (batched variant) *)

\* the candidates performBingSearch builds from the tags of one response;
\* `urls` are the contentUrl values in tag/action/value order, and the
\* position of an item stands for the uuid it is given as resultId (and for
\* its hostPageUrl)
BingCandidates(urls) ==
    [k \in 1..Len(urls) |->
        [source |-> "bing", targetUrl |-> urls[k], searchTerm |-> <<>>,
         resultId |-> <<"bing", k>>]]

\* the four query variants of performGoogleSearch, in the order the code
\* builds them: name; name location; name employer; name location employer
SearchTerms == <<"t1", "t2", "t3", "t4">>

\* one variant's call: a failed call is caught and yields [], a response
\* yields one candidate per item, tagged with the variant's term; the term
\* and the position of the item stand for the uuid given as resultId and
\* for the item's other fields (hostPageUrl, thumbnailUrl, dimensions)
TermResults(t, response) ==
    IF response.ok
    THEN [k \in 1..Len(response.items) |->
            [source |-> "google", targetUrl |-> response.items[k], searchTerm |-> <<t>>,
             resultId |-> <<t, k>>]]
    ELSE <<>>

\* FlatResults with one failing call rejecting the whole Promise.all: the
\* results of its siblings are lost
FlatResultsAllOrNothing(responses) ==
    IF \E k \in 1..4 : ~responses[k].ok
    THEN <<>>
    ELSE Flat([k \in 1..4 |-> TermResults(SearchTerms[k], responses[k])])

\* results.flat(): the results of the four calls in variant order
FlatResults(responses) == Flat([k \in 1..4 |-> TermResults(SearchTerms[k], responses[k])])

\* Dedup dropping a later occurrence without recording its search term
RECURSIVE DedupDropsTerm(_, _)
DedupDropsTerm(acc, rest) ==
    IF rest = <<>> THEN acc
    ELSE LET x == Head(rest)
             hit == {k \in 1..Len(acc) : acc[k].targetUrl = x.targetUrl}
         IN IF hit = {}
            THEN DedupDropsTerm(Append(acc, x), Tail(rest))
            ELSE DedupDropsTerm(acc, Tail(rest))

\* Dedup with the later occurrence taking the place of the kept entry
RECURSIVE DedupLastWins(_, _)
DedupLastWins(acc, rest) ==
    IF rest = <<>> THEN acc
    ELSE LET x == Head(rest)
             hit == {k \in 1..Len(acc) : acc[k].targetUrl = x.targetUrl}
         IN IF hit = {}
            THEN DedupLastWins(Append(acc, x), Tail(rest))
            ELSE LET k == CHOOSE k \in hit : TRUE
                 IN DedupLastWins(
                        [acc EXCEPT ![k] = [x EXCEPT !.searchTerm = acc[k].searchTerm \o @]],
                        Tail(rest))

\* the reduce over flatResults into an object keyed by targetUrl, and
\* Object.values of it: the first occurrence of a targetUrl is kept, a later
\* one only appends its search term to the kept entry (joined with ", ");
\* the keys are URLs, never array indices, so Object.values lists the
\* entries in order of insertion
RECURSIVE Dedup(_, _)
Dedup(acc, rest) ==
    IF rest = <<>> THEN acc
    ELSE LET x == Head(rest)
             hit == {k \in 1..Len(acc) : acc[k].targetUrl = x.targetUrl}
         IN IF hit = {}
            THEN Dedup(Append(acc, x), Tail(rest))
            ELSE LET k == CHOOSE k \in hit : TRUE
                 IN Dedup([acc EXCEPT ![k].searchTerm = @ \o x.searchTerm], Tail(rest))

\* performGoogleSearch on the four responses (getSecrets having succeeded)
performGoogleSearch(responses) == Dedup(<<>>, FlatResults(responses))

\* searchResults = [...bingResults, ...googleResults]
Combine(bingResults, googleResults) == bingResults \o googleResults

----------------------------------------------------------------------------
(* Inputs the environment can supply *)

\* the URLs of s in order of first occurrence are "u1", then "u2"
Canonical(s) ==
    \A k \in DOMAIN s : s[k] = "u2" => \E j \in 1..(k - 1) : s[j] = "u1"

\* contentUrl lists of a reverse-image response of at most n items, up to
\* a renaming of the URLs
BingInputs(n) == {s \in SeqsUpTo(Urls, n) : Canonical(s)}

\* one text-query call: it fails, or it answers with at most one item
TermResponses ==
    {[ok |-> FALSE, items |-> <<>>]} \cup {[ok |-> TRUE, items |-> s] : s \in SeqsUpTo(Urls, 1)}

Hits(responses) == Len(Flat([k \in 1..4 |-> responses[k].items]))

\* the four text-query responses of one run: at most one of the calls
\* answers with an item, and none when n = 0
GoogleInputs(n) == {g \in [1..4 -> TermResponses] : Hits(g) <= Min(n, 1)}

\* the text-query responses of a call of performGoogleSearch examined on
\* its own: at most MaxHits items over the four calls, each with one of
\* three links (two of them differing only in case), and any of the calls
\* that returned nothing failing
GoogleUrls == {"u1", "U1", "u2"}
Hit == [term : 1..4, url : GoogleUrls]
InCallOrder(hits) == \A k \in 1..(Len(hits) - 1) : hits[k].term <= hits[k + 1].term
FlatHits == {hits \in SeqsUpTo(Hit, MaxHits) : InCallOrder(hits)}
LinksOf(hits, t) ==
    LET own == SelectSeq(hits, LAMBDA h : h.term = t)
    IN [k \in 1..Len(own) |-> own[k].url]
ResponsesOf(hits, down) ==
    [t \in 1..4 |-> IF t \in down
                    THEN [ok |-> FALSE, items |-> <<>>]
                    ELSE [ok |-> TRUE, items |-> LinksOf(hits, t)]]
WideGoogleInputs ==
    {ResponsesOf(hits, down) :
        <<hits, down>> \in {hd \in FlatHits \X (SUBSET (1..4)) :
                               \A t \in hd[2] : LinksOf(hd[1], t) = <<>>}}

\* the items the providers have not yet handed out
RECURSIVE Handed(_)
Handed(rs) == IF rs = <<>> THEN 0 ELSE Len(Head(rs).cands) + Handed(Tail(rs))
Budget == MaxCand - Handed(runs)

\* the single provider of the sequential and of the synchronous variant
\* hands out at most MaxCand - 1 items in one behaviour
SeqBudget == IF Budget > 0 THEN Budget - 1 ELSE 0

----------------------------------------------------------------------------
(* The batched processor: unifiedHandler / processSearch of part_000 *)

\* a status write a run has issued (whether or not the store applied it)
Write(status, progress) == [status |-> status, progress |-> progress]

EmptyMatches == [bing |-> <<>>, google |-> <<>>]

\* the units of the batch that starts at loop index i, in input order
BatchUnits(units, i) == SelectSeq(units, LAMBDA u : u.batch = i)

\* the units still running when the batch at loop index i has been awaited
StillRunning(units, i) == SelectSeq(units, LAMBDA u : u.batch # i \/ u.pc # "done")

\* ValidResults collecting the results as the units complete
ValidResultsByCompletion(units) ==
    Flat([k \in 1..Len(units) |->
            LET js == {j \in DOMAIN units : units[j].rank = k}
            IN IF js = {} THEN <<>> ELSE units[CHOOSE j \in js : TRUE].result])

\* batchResults.filter(result => result !== null), in input order
ValidResults(units) == Flat([j \in 1..Len(units) |-> units[j].result])

\* PushAll keeping only the matches of the current batch
PushAllReplaces(matches, valid) ==
    [bing |-> SelectSeq(valid, LAMBDA m : m.source = "bing"),
     google |-> SelectSeq(valid, LAMBDA m : m.source # "bing")]

\* validResults.forEach: push by source onto the accumulated matches
PushAll(matches, valid) ==
    [bing |-> matches.bing \o SelectSeq(valid, LAMBDA m : m.source = "bing"),
     google |-> matches.google \o SelectSeq(valid, LAMBDA m : m.source # "bing")]

\* how the units of a batch ended, in input order (kept for the properties;
\* the code logs it)
Fates(units) == [j \in 1..Len(units) |-> units[j].fate]

\* Batch with an off-by-one end index
BatchOneMore(cands, i) == Slice(cands, i, i + CONCURRENT_PROCESSING + 1)

\* const batch = searchResults.slice(i, i + CONCURRENT_PROCESSING)
Batch(cands, i) == Slice(cands, i, i + CONCURRENT_PROCESSING)

\* Processed counting only the candidates that gave a result
ProcessedValidOnly(processed, batch) == processed + Len(ValidResults(batch))

\* processed += batch.length
Processed(processed, batch) == processed + Len(batch)

\* BatchProgress with Math.floor in place of Math.round
BatchProgressFloor(processed, total) == (processed * 100) \div total

\* Math.round((processed / searchResults.length) * 100)
BatchProgress(processed, total) == MathRound(processed * 100, total)

\* BatchSettled for Promise.race in place of Promise.all
BatchSettledRace(units) ==
    \E j \in DOMAIN units : units[j].settled # "pending"

\* await Promise.all(batchPromises) can proceed: every unit has resolved,
\* or one of them has rejected
BatchSettled(units) ==
    \/ \A j \in DOMAIN units : units[j].settled = "resolved"
    \/ \E j \in DOMAIN units : units[j].settled = "rejected"

\* why a run left its try block: "none", or the call that threw
Errors == {"none", "probe", "provider", "unit", "store"}

NewRun(ev) ==
    [id |-> ev.id, probe |-> ev.probe,
     pc |-> IF ev.probe THEN "search" ELSE "catch",
     err |-> IF ev.probe THEN "none" ELSE "probe",
     bing |-> "pending", google |-> "pending",
     cands |-> <<>>, i |-> 0, processed |-> 0, matches |-> EmptyMatches,
     units |-> <<>>, log |-> <<>>, fates |-> <<>>]

\* the processor is invoked with an event that carries a searchId and no
\* imageBase64 (handleInitiateSearch never dispatches one: it answers 400)
InvokeWithoutProbe ==
    /\ variant = "batched"
    /\ api.op = "idle"
    /\ nextId < Len(Uuids)
    /\ pending' = Append(pending, [id |-> Uuids[nextId + 1], probe |-> FALSE])
    /\ nextId' = nextId + 1
    /\ UNCHANGED <<variant, store, artifacts, saved, runs, api, resp, searchResults, polled,
                   cachedSecrets, secretCalls>>

\* the Lambda service starts the processor on a dispatched event;
\* imageBase64.replace throws when the event carries no probe
StartRun(k) ==
    /\ variant = "batched"
    /\ k \in DOMAIN pending
    /\ runs' = Append(runs, NewRun(pending[k]))
    /\ pending' = [j \in 1..(Len(pending) - 1) |-> IF j < k THEN pending[j] ELSE pending[j + 1]]
    /\ UNCHANGED <<variant, store, artifacts, saved, api, resp, nextId, searchResults, polled,
                   cachedSecrets, secretCalls>>

\* await Promise.all([performBingSearch(..), performGoogleSearch(..)]):
\* performBingSearch throws when getSecrets or the POST fails,
\* performGoogleSearch when getSecrets fails; either one throwing rejects
\* the await and control passes to the catch of processSearch
Search(r) ==
    /\ variant = "batched"
    /\ runs[r].pc = "search"
    /\ \/ \E b \in BingInputs(Budget) : \E g \in GoogleInputs(Budget - Len(b)) :
            runs' = [runs EXCEPT ![r].cands = Combine(BingCandidates(b), performGoogleSearch(g)),
                                 ![r].bing = "ok", ![r].google = "ok",
                                 ![r].pc = "loop"]
       \/ \E bing, google \in {"ok", "throw"} :
            /\ "throw" \in {bing, google}
            /\ runs' = [runs EXCEPT ![r].bing = bing, ![r].google = google,
                                    ![r].err = "provider", ![r].pc = "catch"]
    /\ UNCHANGED <<variant, store, artifacts, saved, pending, api, resp, nextId, searchResults, polled,
                   cachedSecrets, secretCalls>>

\* the loop head with i < searchResults.length: batch.map(processImage)
\* starts every unit of the batch
StartBatch(r) ==
    /\ variant = "batched"
    /\ runs[r].pc = "loop"
    /\ runs[r].i < Len(runs[r].cands)
    /\ LET batch == Batch(runs[r].cands, runs[r].i)
       IN runs' = [runs EXCEPT
                     ![r].units = @ \o [j \in 1..Len(batch) |->
                                          NewUnit(batch[j], runs[r].i, <<r, runs[r].i + j>>)],
                     ![r].pc = "batch"]
    /\ UNCHANGED <<variant, store, artifacts, saved, pending, api, resp, nextId, searchResults, polled,
                   cachedSecrets, secretCalls>>

Fetch(r, j) ==
    /\ variant = "batched"
    /\ j \in DOMAIN runs[r].units
    /\ runs[r].units[j].pc = "fetch"
    /\ \E o \in FetchOutcomes :
          runs' = [runs EXCEPT ![r].units[j] = AfterFetch(@, o)]
    /\ UNCHANGED <<variant, store, artifacts, saved, pending, api, resp, nextId, searchResults, polled,
                   cachedSecrets, secretCalls>>

Upload(r, j) ==
    /\ variant = "batched"
    /\ j \in DOMAIN runs[r].units
    /\ runs[r].units[j].pc = "upload"
    /\ \E ok \in BOOLEAN :
          /\ runs' = [runs EXCEPT ![r].units[j] = AfterUpload(@, ok)]
          /\ artifacts' = IF ok THEN artifacts \cup {runs[r].units[j].key} ELSE artifacts
    /\ UNCHANGED <<variant, store, saved, pending, api, resp, nextId, searchResults, polled,
                   cachedSecrets, secretCalls>>

Compare(r, j) ==
    /\ variant = "batched"
    /\ j \in DOMAIN runs[r].units
    /\ runs[r].units[j].pc = "compare"
    /\ \E o \in CompareOutcomes :
          /\ runs' = [runs EXCEPT ![r].units[j] = AfterCompare(@, o)]
          /\ saved' = IF o = "match"
                      THEN saved \cup {[key |-> runs[r].units[j].key, item |-> runs[r].units[j].cand]}
                      ELSE saved
    /\ UNCHANGED <<variant, store, artifacts, pending, api, resp, nextId, searchResults, polled,
                   cachedSecrets, secretCalls>>

Cleanup(r, j) ==
    /\ variant = "batched"
    /\ j \in DOMAIN runs[r].units
    /\ runs[r].units[j].pc = "cleanup"
    /\ \E ok \in BOOLEAN :
          /\ runs' = [runs EXCEPT ![r].units[j] =
                          [AfterCleanup(@, ok) EXCEPT !.rank = Completed(runs[r].units) + 1]]
          /\ artifacts' = Deleted(artifacts, runs[r].units[j].key, ok)
    /\ UNCHANGED <<variant, store, saved, pending, api, resp, nextId, searchResults, polled,
                   cachedSecrets, secretCalls>>

\* the rest of the loop body once the await of the batch returns: collect
\* the matches, count the batch, and await updateSearchStatus('processing');
\* a rejected unit or a failed write throws to the catch of processSearch
FinishBatch(r) ==
    /\ variant = "batched"
    /\ runs[r].pc = "batch"
    /\ BatchSettled(BatchUnits(runs[r].units, runs[r].i))
    /\ IF \E u \in Range(BatchUnits(runs[r].units, runs[r].i)) : u.settled = "rejected"
       THEN /\ runs' = [runs EXCEPT ![r].err = "unit", ![r].pc = "catch"]
            /\ UNCHANGED store
       ELSE LET run == runs[r]
                batch == BatchUnits(run.units, run.i)
                matches == PushAll(run.matches, ValidResults(batch))
                processed == Processed(run.processed, batch)
                progress == BatchProgress(processed, Len(run.cands))
            IN \E ok \in BOOLEAN :
                 /\ runs' = [runs EXCEPT
                               ![r].matches = matches,
                               ![r].processed = processed,
                               ![r].units = StillRunning(@, run.i),
                               ![r].fates = @ \o Fates(batch),
                               ![r].log = Append(@, Write("processing", progress)),
                               ![r].i = IF ok THEN @ + CONCURRENT_PROCESSING ELSE @,
                               ![r].err = IF ok THEN @ ELSE "store",
                               ![r].pc = IF ok THEN "loop" ELSE "catch"]
                 /\ store' = IF ok
                             THEN [store EXCEPT ![run.id] =
                                     updateSearchStatus(@, "processing", progress,
                                         ResultsObject(matches),
                                         Additional(processed, Len(run.cands)))]
                             ELSE store
    /\ UNCHANGED <<variant, artifacts, saved, pending, api, resp, nextId, searchResults, polled,
                   cachedSecrets, secretCalls>>

\* the loop has ended: await updateSearchStatus('completed', 100, ...)
Finalize(r) ==
    /\ variant = "batched"
    /\ runs[r].pc = "loop"
    /\ runs[r].i >= Len(runs[r].cands)
    /\ \E ok \in BOOLEAN :
         /\ runs' = [runs EXCEPT
                       ![r].log = Append(@, Write("completed", 100)),
                       ![r].err = IF ok THEN @ ELSE "store",
                       ![r].pc = IF ok THEN "done" ELSE "catch"]
         /\ store' = IF ok
                     THEN [store EXCEPT ![runs[r].id] =
                             updateSearchStatus(@, "completed", 100,
                                 ResultsObject(runs[r].matches),
                                 Additional(runs[r].processed, Len(runs[r].cands)))]
                     ELSE store
    /\ UNCHANGED <<variant, artifacts, saved, pending, api, resp, nextId, searchResults, polled,
                   cachedSecrets, secretCalls>>

\* catch of processSearch: await updateSearchStatus(searchId, 'failed', 0),
\* then rethrow (a failing write throws in place of the caught error)
Catch(r) ==
    /\ variant = "batched"
    /\ runs[r].pc = "catch"
    /\ \E ok \in BOOLEAN :
         /\ runs' = [runs EXCEPT
                       ![r].log = Append(@, Write("failed", 0)),
                       ![r].pc = "outer"]
         /\ store' = IF ok
                     THEN [store EXCEPT ![runs[r].id] =
                             updateSearchStatus(@, "failed", 0, NoResults, NoAdditional)]
                     ELSE store
    /\ UNCHANGED <<variant, artifacts, saved, pending, api, resp, nextId, searchResults, polled,
                   cachedSecrets, secretCalls>>

\* catch of unifiedHandler: await updateSearchStatus(searchId, 'failed', 0)
Outer(r) ==
    /\ variant = "batched"
    /\ runs[r].pc = "outer"
    /\ \E ok \in BOOLEAN :
         /\ runs' = [runs EXCEPT
                       ![r].log = Append(@, Write("failed", 0)),
                       ![r].pc = "done"]
         /\ store' = IF ok
                     THEN [store EXCEPT ![runs[r].id] =
                             updateSearchStatus(@, "failed", 0, NoResults, NoAdditional)]
                     ELSE store
    /\ UNCHANGED <<variant, artifacts, saved, pending, api, resp, nextId, searchResults, polled,
                   cachedSecrets, secretCalls>>

----------------------------------------------------------------------------
(* handleInitiateSearch (part_001) *)

Idle == [op |-> "idle", pc |-> "idle", id |-> 0, payload |-> <<>>, k |-> 0]

\* request bodies: unparseable, or an object with or without each field
InitiateBodies ==
    [parses : BOOLEAN, base64Image : BOOLEAN, fullName : BOOLEAN,
     location : BOOLEAN, employer : BOOLEAN]

Response(code, id) == [code |-> code, id |-> id]
NoResponse == Response(0, 0)

\* the loop over requiredFields: 400 for the first falsy field
MissingField(body) ==
    \/ ~body.base64Image
    \/ ~body.fullName
    \/ ~body.location
    \/ ~body.employer

\* the field the loop over Object.entries(requiredFields) stops at
FirstMissing(body) ==
    CASE ~body.base64Image -> "base64Image"
      [] ~body.fullName -> "fullName"
      [] ~body.location -> "location"
      [] OTHER -> "employer"

\* createResponse(400, { message: `Missing required parameter: ${field}` })
MissingParameter(field) == [code |-> 400, id |-> 0, missing |-> field]

\* JSON.parse, the required-field check, uuidv4() and the upload of the
\* probe to the bucket
InitiateBegin ==
    /\ variant = "batched"
    /\ api = Idle
    /\ nextId < Len(Uuids)
    /\ \E body \in InitiateBodies :
         IF ~body.parses
         THEN /\ resp' = (Response(500, 0))
              /\ UNCHANGED <<api, nextId>>
         ELSE IF MissingField(body)
         THEN /\ resp' = MissingParameter(FirstMissing(body))
              /\ UNCHANGED <<api, nextId>>
         ELSE /\ nextId' = nextId + 1
              /\ \E ok \in BOOLEAN :
                   IF ok
                   THEN /\ api' = [Idle EXCEPT !.op = "initiate", !.pc = "put", !.id = Uuids[nextId + 1]]
                        /\ UNCHANGED resp
                   ELSE /\ resp' = (Response(500, 0))
                        /\ UNCHANGED api
    /\ UNCHANGED <<variant, store, artifacts, saved, pending, runs, searchResults, polled,
                   cachedSecrets, secretCalls>>

\* InitiatePut with a failed put caught and logged: the handler goes on to
\* dispatch the processor although no item was stored
InitiatePutFailureSwallowed ==
    /\ variant = "batched"
    /\ api.op = "initiate"
    /\ api.pc = "put"
    /\ \E ok \in BOOLEAN :
         /\ store' = IF ok THEN [store EXCEPT ![api.id] = InitialMetadata] ELSE store
         /\ api' = [api EXCEPT !.pc = "invoke"]
         /\ UNCHANGED resp
    /\ UNCHANGED <<variant, artifacts, saved, pending, runs, nextId, searchResults, polled,
                   cachedSecrets, secretCalls>>

\* await dynamoDB.put of the initial metadata item
InitiatePut ==
    /\ variant = "batched"
    /\ api.op = "initiate"
    /\ api.pc = "put"
    /\ \E ok \in BOOLEAN :
         IF ok
         THEN /\ store' = [store EXCEPT ![api.id] = InitialMetadata]
              /\ api' = [api EXCEPT !.pc = "invoke"]
              /\ UNCHANGED resp
         ELSE /\ resp' = (Response(500, 0))
              /\ api' = Idle
              /\ UNCHANGED store
    /\ UNCHANGED <<variant, artifacts, saved, pending, runs, nextId, searchResults, polled,
                   cachedSecrets, secretCalls>>

\* await lambda.invoke (InvocationType 'Event'), then the 202 response
InitiateInvoke ==
    /\ variant = "batched"
    /\ api.op = "initiate"
    /\ api.pc = "invoke"
    /\ \E ok \in BOOLEAN :
         IF ok
         THEN /\ pending' = Append(pending, [id |-> api.id, probe |-> TRUE])
              /\ resp' = (Response(202, api.id))
         ELSE /\ resp' = (Response(500, 0))
              /\ UNCHANGED pending
    /\ api' = Idle
    /\ UNCHANGED <<variant, store, artifacts, saved, runs, nextId, searchResults, polled,
                   cachedSecrets, secretCalls>>

----------------------------------------------------------------------------
(* handleUpload (handler.js) *)

NoId == -1

\* an entry of the posted array: original_id (or none) and whether url is set
Entries == [original_id : Ids \cup {NoId}, url : BOOLEAN]

\* the item handleUpload puts for an entry
InitialItem ==
    [status |-> "processing", progress |-> 0, results |-> NoResults,
     matches |-> <<>>, totalProcessed |-> Absent, totalAvailable |-> Absent]

\* the per-entry validation inside the loop
ValidEntry(e) == e.original_id # NoId /\ e.url

\* JSON.parse and the Array.isArray check
UploadBegin ==
    /\ variant = "sequential"
    /\ api = Idle
    /\ nextId < MaxEntries
    /\ \/ resp' = Response(500, 0) /\ UNCHANGED <<api, nextId>>
       \/ resp' = Response(400, 0) /\ UNCHANGED <<api, nextId>>
       \/ \E payload \in SeqsUpTo(Entries, MaxEntries - nextId) :
            /\ api' = [Idle EXCEPT !.op = "upload", !.pc = "entry", !.payload = payload, !.k = 1]
            /\ nextId' = nextId + Len(payload)
            /\ UNCHANGED resp
    /\ UNCHANGED <<variant, store, artifacts, saved, pending, runs, searchResults, polled,
                   cachedSecrets, secretCalls>>

\* one iteration of the validation loop: 400 for an invalid entry, else
\* await dynamoDB.put of the entry's item
UploadEntry ==
    /\ variant = "sequential"
    /\ api.op = "upload"
    /\ api.pc = "entry"
    /\ api.k <= Len(api.payload)
    /\ LET e == api.payload[api.k]
       IN IF ~ValidEntry(e)
          THEN /\ resp' = Response(400, 0)
               /\ api' = Idle
               /\ UNCHANGED store
          ELSE \E ok \in BOOLEAN :
                 IF ok
                 THEN /\ store' = [store EXCEPT ![e.original_id] = InitialItem]
                      /\ api' = [api EXCEPT !.k = @ + 1]
                      /\ UNCHANGED resp
                 ELSE /\ resp' = Response(500, 0)
                      /\ api' = Idle
                      /\ UNCHANGED store
    /\ UNCHANGED <<variant, artifacts, saved, pending, runs, nextId, searchResults, polled,
                   cachedSecrets, secretCalls>>

\* images.map(image => lambda.invoke(..)) and await Promise.all: every
\* invocation is issued, each succeeds or fails, and one failure makes the
\* handler answer 500
UploadDispatch ==
    /\ variant = "sequential"
    /\ api.op = "upload"
    /\ api.pc = "entry"
    /\ api.k > Len(api.payload)
    /\ \E oks \in [1..Len(api.payload) -> BOOLEAN] :
         /\ pending' = pending \o
               SelectSeq([k \in 1..Len(api.payload) |->
                            [id |-> api.payload[k].original_id, probe |-> oks[k]]],
                         LAMBDA ev : ev.probe)
         /\ resp' = IF \A k \in 1..Len(api.payload) : oks[k]
                    THEN Response(202, 0) ELSE Response(500, 0)
    /\ api' = Idle
    /\ UNCHANGED <<variant, store, artifacts, saved, runs, nextId, searchResults, polled,
                   cachedSecrets, secretCalls>>

----------------------------------------------------------------------------
(* The sequential processor: unifiedHandler of unifiedHandler.js:506-623 *)

\* the candidates performBingSearch builds (no source tag in this variant)
SeqCandidates(urls) ==
    [k \in 1..Len(urls) |-> [source |-> "bing", targetUrl |-> urls[k], searchTerm |-> <<>>]]

\* updateProgress: SET progress = :progress on the item (an upsert)
updateProgress(rec, progress) ==
    [rec EXCEPT !.progress = progress,
                !.status = IF @ = "none" THEN "absent" ELSE @]

\* FailedItem with the progress of the record left as the run last wrote it
FailedItemKeepsProgress ==
    [status |-> "failed", progress |-> 20, results |-> NoResults,
     matches |-> <<>>, totalProcessed |-> Absent, totalAvailable |-> Absent]

\* the item updateFailedStatus puts
FailedItem ==
    [status |-> "failed", progress |-> 0, results |-> NoResults,
     matches |-> <<>>, totalProcessed |-> Absent, totalAvailable |-> Absent]

\* the item the final dynamoDB.put stores
CompletedItem(matches) ==
    [status |-> "completed", progress |-> 100, results |-> NoResults,
     matches |-> matches, totalProcessed |-> Absent, totalAvailable |-> Absent]

\* Math.round(40 + (processed / total * 60))
ItemProgress(processed, total) == 40 + MathRound(processed * 60, total)

\* what one iteration of the loop over searchResults does to the local
\* state: "skip" is the `continue` after a failed normalization, "match"
\* pushes the candidate, "nomatch" and "throw" only count it
ItemOutcomes == {"skip", "match", "nomatch", "throw"}
Counted(o) == o # "skip"
Pushed(matches, cand, o) ==
    IF o = "match" THEN Append(matches, [url |-> cand.targetUrl]) ELSE matches

\* what axios.get of an image URL gives processImageUrl: the call throws
\* (timeout, network error, a status outside 2xx, a body over
\* maxContentLength), it answers with a 2xx status other than 200, or it
\* answers 200 with a payload: an image Jimp.read decodes, an empty payload,
\* or bytes Jimp.read rejects, which are at most or more than the
\* 1920 * 1080 * 4 bytes of the bitmap of `new Jimp(1920, 1080)`
Payloads == {"image", "empty", "undecodable", "undecodableOversize"}
ImageFetches == {"throws", "not200"} \cup Payloads

\* processImageUrl: null when the fetch throws or the status is not 200;
\* when Jimp.read rejects the payload the second try copies the bytes into
\* the bitmap of a blank 1920x1080 image with TypedArray.set, which throws
\* only when the payload is longer than the bitmap, so that an empty or an
\* undecodable payload that fits is encoded and returned as a JPEG buffer
processImageUrl(fetched) ==
    CASE fetched \in {"throws", "not200"} -> "null"
      [] fetched = "image" -> "buffer"
      [] fetched \in {"empty", "undecodable"} -> "bufferOfBlankImage"
      [] OTHER -> "null"

\* SeqStart without the check of the null buffer
SeqStartIgnoresNull(k) ==
    /\ variant = "sequential"
    /\ k \in DOMAIN pending
    /\ \E fetched \in ImageFetches :
         LET ok == processImageUrl(fetched) # "null"
         IN
         runs' = Append(runs,
                   [id |-> pending[k].id, probe |-> ok, fetched |-> fetched,
                    pc |-> "p20",
                    err |-> IF ok THEN "none" ELSE "probe",
                    bing |-> "pending", google |-> "pending",
                    cands |-> <<>>, i |-> 0, processed |-> 0, matches |-> <<>>,
                    units |-> <<>>, log |-> <<>>])
    /\ pending' = [j \in 1..(Len(pending) - 1) |-> IF j < k THEN pending[j] ELSE pending[j + 1]]
    /\ UNCHANGED <<variant, store, artifacts, saved, api, resp, nextId, searchResults, polled,
                   cachedSecrets, secretCalls>>

\* the Lambda service starts the processor on a dispatched event;
\* processImageUrl(imageUrl) returns a buffer or null
SeqStart(k) ==
    /\ variant = "sequential"
    /\ k \in DOMAIN pending
    /\ \E fetched \in ImageFetches :
         LET ok == processImageUrl(fetched) # "null"
         IN
         runs' = Append(runs,
                   [id |-> pending[k].id, probe |-> ok, fetched |-> fetched,
                    pc |-> IF ok THEN "p20" ELSE "fail",
                    err |-> IF ok THEN "none" ELSE "probe",
                    bing |-> "pending", google |-> "pending",
                    cands |-> <<>>, i |-> 0, processed |-> 0, matches |-> <<>>,
                    units |-> <<>>, log |-> <<>>])
    /\ pending' = [j \in 1..(Len(pending) - 1) |-> IF j < k THEN pending[j] ELSE pending[j + 1]]
    /\ UNCHANGED <<variant, store, artifacts, saved, api, resp, nextId, searchResults, polled,
                   cachedSecrets, secretCalls>>

\* await updateProgress(original_id, 20) (a failing write is swallowed),
\* then performBingSearch: it throws, or returns the candidates
SeqP20(r) ==
    /\ variant = "sequential"
    /\ runs[r].pc = "p20"
    /\ \E ok \in BOOLEAN :
         /\ store' = IF ok THEN [store EXCEPT ![runs[r].id] = updateProgress(@, 20)] ELSE store
         /\ \/ runs' = [runs EXCEPT ![r].log = Append(@, Write("processing", 20)),
                                    ![r].bing = "throw", ![r].err = "provider",
                                    ![r].pc = "fail"]
            \/ \E b \in BingInputs(SeqBudget) :
                 runs' = [runs EXCEPT ![r].log = Append(@, Write("processing", 20)),
                                      ![r].cands = SeqCandidates(b),
                                      ![r].bing = "ok",
                                      ![r].pc = "p40"]
    /\ UNCHANGED <<variant, artifacts, saved, pending, api, resp, nextId, searchResults, polled,
                   cachedSecrets, secretCalls>>

\* await updateProgress(original_id, 40)
SeqP40(r) ==
    /\ variant = "sequential"
    /\ runs[r].pc = "p40"
    /\ \E ok \in BOOLEAN :
         /\ store' = IF ok THEN [store EXCEPT ![runs[r].id] = updateProgress(@, 40)] ELSE store
         /\ runs' = [runs EXCEPT ![r].log = Append(@, Write("processing", 40)),
                                 ![r].pc = "item"]
    /\ UNCHANGED <<variant, artifacts, saved, pending, api, resp, nextId, searchResults, polled,
                   cachedSecrets, secretCalls>>

\* one iteration of `for (const result of searchResults)`: normalize the
\* candidate, compare, and unless the iteration was skipped count it and
\* await updateProgress
SeqItem(r) ==
    /\ variant = "sequential"
    /\ runs[r].pc = "item"
    /\ runs[r].i < Len(runs[r].cands)
    /\ \E o \in ItemOutcomes : \E ok \in BOOLEAN :
         LET run == runs[r]
             cand == run.cands[run.i + 1]
             processed == IF Counted(o) THEN run.processed + 1 ELSE run.processed
             progress == ItemProgress(processed, Len(run.cands))
         IN /\ runs' = [runs EXCEPT
                          ![r].i = @ + 1,
                          ![r].processed = processed,
                          ![r].matches = Pushed(@, cand, o),
                          ![r].log = IF Counted(o)
                                     THEN Append(@, Write("processing", progress))
                                     ELSE @]
            /\ store' = IF Counted(o) /\ ok
                        THEN [store EXCEPT ![run.id] = updateProgress(@, progress)]
                        ELSE store
    /\ UNCHANGED <<variant, artifacts, saved, pending, api, resp, nextId, searchResults, polled,
                   cachedSecrets, secretCalls>>

\* the final dynamoDB.put of the completed item; a failure throws to the
\* outer catch, which calls updateFailedStatus
SeqFinal(r) ==
    /\ variant = "sequential"
    /\ runs[r].pc = "item"
    /\ runs[r].i >= Len(runs[r].cands)
    /\ \E ok \in BOOLEAN :
         /\ store' = IF ok
                     THEN [store EXCEPT ![runs[r].id] = CompletedItem(runs[r].matches)]
                     ELSE store
         /\ runs' = [runs EXCEPT ![r].log = Append(@, Write("completed", 100)),
                                 ![r].err = IF ok THEN @ ELSE "store",
                                 ![r].pc = IF ok THEN "done" ELSE "fail"]
    /\ UNCHANGED <<variant, artifacts, saved, pending, api, resp, nextId, searchResults, polled,
                   cachedSecrets, secretCalls>>

\* updateFailedStatus: dynamoDB.put of the failed item, a failure swallowed
SeqFail(r) ==
    /\ variant = "sequential"
    /\ runs[r].pc = "fail"
    /\ \E ok \in BOOLEAN :
         /\ store' = IF ok THEN [store EXCEPT ![runs[r].id] = FailedItem] ELSE store
         /\ runs' = [runs EXCEPT ![r].log = Append(@, Write("failed", 0)),
                                 ![r].pc = "done"]
    /\ UNCHANGED <<variant, artifacts, saved, pending, api, resp, nextId, searchResults, polled,
                   cachedSecrets, secretCalls>>

----------------------------------------------------------------------------
(* The synchronous handler: unifiedHandler of unifiedHandler.js:27-489.    *)
(* One process serves its invocations one after the other.                 *)

MAX_PARALLEL_PROCESSING == 5

\* the item the handler puts to SearchMetadata after the upload of the probe
UploadedItem ==
    [status |-> "Uploaded", progress |-> Absent, results |-> NoResults,
     matches |-> <<>>, totalProcessed |-> Absent, totalAvailable |-> Absent]

\* what happens before the provider is called: the body does not parse or
\* has no base64Image, the upload of the probe fails, the put of the
\* metadata fails, getSecrets fails, or all of them succeed
SetupOutcomes == {"invalid", "uploadFails", "putFails", "secretsFail", "ok"}

\* the provider call: it throws, it answers without tags, or it answers
\* with tags whose items are the candidates
SyncResponse(kind, urls) == [kind |-> kind, urls |-> urls]
SyncResponses(n) ==
    {SyncResponse("throw", <<>>), SyncResponse("notags", <<>>)}
        \cup {SyncResponse("tags", b) : b \in BingInputs(n)}

\* the candidates built from the tags of a response; an item's hostPageUrl
\* travels with its contentUrl
SyncCandidates(imageId, urls) ==
    Slice([k \in 1..Len(urls) |-> [imageId |-> imageId, targetUrl |-> urls[k]]],
          0, MAX_PARALLEL_PROCESSING)

\* searchResults after the provider answered: assigned only when the
\* response has tags
AfterResponse(old, imageId, response) ==
    IF response.kind = "tags" THEN SyncCandidates(imageId, response.urls) ELSE old

\* the match built for a candidate: imageId of the invocation, hostPageUrl
\* and targetUrl of the candidate
SyncMatch(imageId, result) == [imageId |-> imageId, targetUrl |-> result.targetUrl]

\* one iteration of the loop: "skip" fails before the artifact is stored,
\* "throw" is a comparator error; a match is pushed before its put, and a
\* failed put is only logged
SyncOutcomes == {"skip", "match", "matchUnsaved", "nomatch", "throw"}

SyncPushed(matches, imageId, result, o) ==
    IF o \in {"match", "matchUnsaved"}
    THEN Append(matches, SyncMatch(imageId, result))
    ELSE matches

\* no invocation is running in the process
ProcessFree == \A r \in DOMAIN runs : runs[r].pc = "done"

\* entry of the handler up to getSecrets; `tmp` is the file /tmp/<imageId>.jpg
\* of the invocation, which fs.writeFileSync writes once the body is
\* accepted and before the upload of the probe
SyncBegin ==
    /\ variant = "synchronous"
    /\ ProcessFree
    /\ nextId < MaxEntries
    /\ \E o \in SetupOutcomes :
         LET id == nextId + 1
             stored == o \in {"secretsFail", "ok"}
         IN /\ runs' = Append(runs,
                  [id |-> id, probe |-> o # "invalid",
                   pc |-> IF o = "ok" THEN "search" ELSE "done",
                   err |-> IF o = "ok" THEN "none" ELSE "probe",
                   bing |-> "pending", google |-> "pending",
                   cands |-> <<>>, i |-> 0, processed |-> 0, matches |-> <<>>,
                   units |-> <<>>, log |-> <<>>,
                   code |-> IF o = "ok" THEN 0 ELSE 500,
                   tmp |-> IF o = "invalid" THEN "none" ELSE "written"])
            /\ store' = IF stored THEN [store EXCEPT ![id] = UploadedItem] ELSE store
    /\ nextId' = nextId + 1
    /\ UNCHANGED <<variant, artifacts, saved, pending, api, resp, searchResults, polled,
                   cachedSecrets, secretCalls>>

\* axios.post to the provider and the assignment of searchResults; a
\* throwing call goes to the outer catch and the 500 response; the finally
\* block of the call removes the file with fs.unlinkSync either way
SyncSearch(r) ==
    /\ variant = "synchronous"
    /\ runs[r].pc = "search"
    /\ \E response \in SyncResponses(SeqBudget) :
         /\ searchResults' = AfterResponse(searchResults, runs[r].id, response)
         /\ runs' = [runs EXCEPT
                       ![r].cands = SyncCandidates(runs[r].id, response.urls),
                       ![r].bing = IF response.kind = "throw" THEN "throw" ELSE "ok",
                       ![r].err = IF response.kind = "throw" THEN "provider" ELSE @,
                       ![r].code = IF response.kind = "throw" THEN 500 ELSE @,
                       ![r].tmp = "removed",
                       ![r].pc = IF response.kind = "throw" THEN "done" ELSE "item"]
    /\ UNCHANGED <<variant, store, artifacts, saved, pending, api, resp, nextId, polled,
                   cachedSecrets, secretCalls>>

\* one iteration of `for (const result of searchResults)`, finally block
\* included: the artifact stays only when it was stored and its deletion
\* failed
SyncItem(r) ==
    /\ variant = "synchronous"
    /\ runs[r].pc = "item"
    /\ runs[r].i < Len(searchResults)
    /\ \E o \in SyncOutcomes : \E deleted \in BOOLEAN :
         LET result == searchResults[runs[r].i + 1]
             key == <<r, runs[r].i + 1>>
         IN /\ runs' = [runs EXCEPT
                          ![r].i = @ + 1,
                          ![r].processed = @ + 1,
                          ![r].matches = SyncPushed(@, runs[r].id, result, o)]
            /\ saved' = IF o = "match"
                        THEN saved \cup {[key |-> key, item |-> SyncMatch(runs[r].id, result)]}
                        ELSE saved
            /\ artifacts' = IF o # "skip"
                            THEN Deleted(artifacts \cup {key}, key, deleted)
                            ELSE artifacts
    /\ UNCHANGED <<variant, store, pending, api, resp, nextId, searchResults, polled,
                   cachedSecrets, secretCalls>>

\* the loop has ended: the 200 response with the matches
SyncReturn(r) ==
    /\ variant = "synchronous"
    /\ runs[r].pc = "item"
    /\ runs[r].i >= Len(searchResults)
    /\ runs' = [runs EXCEPT ![r].code = 200, ![r].pc = "done"]
    /\ UNCHANGED <<variant, store, artifacts, saved, pending, api, resp, nextId, searchResults, polled,
                   cachedSecrets, secretCalls>>

----------------------------------------------------------------------------
(* handleGetStatus of part_001 (batched variant) *)

\* the entries of the response built from a stored match; resultId stands
\* for the hostPageUrl of the match (the title, built from the similarity,
\* is left out)
FormatBing(match) ==
    [url |-> match.resultId, thumbnailUrl |-> match.targetUrl, source |-> "bing"]
FormatGoogle(match) ==
    [url |-> match.resultId, thumbnailUrl |-> match.targetUrl, source |-> "google",
     searchTerm |-> match.searchTerm]

\* formattedResults: search.results.bing?.map(..) || [] and the same for
\* google; on the array [] of the initial item both properties are
\* undefined and both lists are []
FormattedResults(results) ==
    [bing |-> [k \in 1..Len(results.bing) |-> FormatBing(results.bing[k])],
     google |-> [k \in 1..Len(results.google) |-> FormatGoogle(results.google[k])]]

\* an answer of a status endpoint: the status code, the body, and `seen`,
\* the status of the item the read returned
StatusResponse(code, body, seen) == [code |-> code, body |-> body, seen |-> seen]
NoBody == [message |-> "error"]

\* the body of the 200 answer; an attribute the item does not have is
\* undefined, and JSON.stringify leaves the property out (Absent)
StatusBody(rec) ==
    [status |-> rec.status, progress |-> rec.progress,
     results |-> FormattedResults(rec.results),
     totalProcessed |-> rec.totalProcessed, totalAvailable |-> rec.totalAvailable]

\* handleGetStatus once dynamoDB.get has returned: 404 without an item;
\* on an item without `results` the expression search.results.bing throws
\* a TypeError, which the catch answers with 500
handleGetStatus(rec) ==
    CASE rec.status = "none" -> StatusResponse(404, NoBody, "none")
      [] rec.results.kind = "absent" -> StatusResponse(500, NoBody, rec.status)
      [] OTHER -> StatusResponse(200, StatusBody(rec), rec.status)

\* GET /status/{searchId}; a dynamoDB.get that fails is answered 500 and
\* leaves no trace
GetStatus(id) ==
    /\ variant = "batched"
    /\ \E ok \in BOOLEAN :
         polled' = IF ok THEN [polled EXCEPT ![id] = handleGetStatus(store[id])] ELSE polled
    /\ UNCHANGED <<variant, store, artifacts, saved, pending, runs, api, resp, nextId,
                   searchResults, cachedSecrets, secretCalls>>

----------------------------------------------------------------------------
(* handleGetStatus of handler.js (sequential variant) *)

\* an entry of img_data built from a stored match
FormatMatch(match) ==
    [url |-> match.url, malicious |-> FALSE, false_positive_eligible |-> FALSE]

\* result.progress || 0
ProgressOrZero(progress) == IF progress = Absent THEN 0 ELSE progress

\* handleGetStatus once dynamoDB.get has returned: 404 without an item,
\* status and progress for a processing item, an empty img_data for a failed
\* one, and the formatted matches for every other item
SeqHandleGetStatus(id, rec) ==
    CASE rec.status = "none" ->
            StatusResponse(404, [id |-> id, img_data |-> <<>>], "none")
      [] rec.status = "processing" ->
            StatusResponse(200, [id |-> id, status |-> "processing",
                                 progress |-> ProgressOrZero(rec.progress)], rec.status)
      [] rec.status = "failed" ->
            StatusResponse(200, [id |-> id, img_data |-> <<>>], rec.status)
      [] OTHER ->
            StatusResponse(200,
                [id |-> id,
                 img_data |-> [k \in 1..Len(rec.matches) |-> FormatMatch(rec.matches[k])]],
                rec.status)

\* GET /status/{original_id}; a dynamoDB.get that fails is answered 500 and
\* leaves no trace
SeqGetStatus(id) ==
    /\ variant = "sequential"
    /\ \E ok \in BOOLEAN :
         polled' = IF ok THEN [polled EXCEPT ![id] = SeqHandleGetStatus(id, store[id])]
                   ELSE polled
    /\ UNCHANGED <<variant, store, artifacts, saved, pending, runs, api, resp, nextId,
                   searchResults, cachedSecrets, secretCalls>>

----------------------------------------------------------------------------
(* original_id on its way from POST /upload to GET /status/{original_id}   *)
(* (handler.js): JSON gives it as a number or as a string, the path of the *)
(* status request carries its text, and the table holds it as the key,     *)
(* typed as DynamoDBDocument marshals it (a number as N, a string as S).   *)

MaxDigits == 2       \* characters of an original_id written as text

\* a string is the sequence of its characters
DigitChars == <<"0", "1", "2", "3", "4", "5", "6", "7", "8", "9">>
Texts == SeqsUpTo({"0", "1", "a"}, MaxDigits)

\* JavaScript values: numbers (NaN as its own value) and strings
Num(n) == [type |-> "number", value |-> n]
Str(text) == [type |-> "string", value |-> text]
NaN == Num(-1)

\* ToBoolean: 0, NaN and "" are falsy
Truthy(v) ==
    IF v.type = "number" THEN v # Num(0) /\ v # NaN ELSE v.value # <<>>

\* String(n) of an integer n >= 0: its decimal digits
RECURSIVE Digits(_)
Digits(n) ==
    IF n < 10 THEN <<DigitChars[n + 1]>>
    ELSE Append(Digits(n \div 10), DigitChars[(n % 10) + 1])

\* the text of an original_id as the caller puts it in the path
ToText(v) == IF v.type = "number" THEN Digits(v.value) ELSE v.value

\* Number(text): 0 for "", the value of a decimal numeral (leading zeros
\* allowed), NaN for a text with a character that is not a digit
RECURSIVE Numeral(_)
Numeral(text) ==
    IF text = <<>> THEN 0
    ELSE 10 * Numeral(SubSeq(text, 1, Len(text) - 1))
            + (CHOOSE d \in 0..9 : DigitChars[d + 1] = text[Len(text)])
ToNumber(text) ==
    IF \A k \in DOMAIN text : text[k] \in Range(DigitChars)
    THEN Num(Numeral(text)) ELSE NaN

\* the identifiers a payload can carry: the integers whose text is within
\* the bound, and the strings
OriginalIds ==
    {Num(n) : n \in {m \in 0..(10^MaxDigits - 1) : Digits(m) \in Texts}} \cup {Str(text) : text \in Texts}

\* the check of original_id in the loop of handleUpload:
\* !image.original_id && image.original_id !== 0 answers 400
AcceptsOriginalId(v) == Truthy(v) \/ v = Num(0)

\* const idForQuery = Number(originalId) || originalId
idForQuery(originalId) ==
    IF Truthy(ToNumber(originalId)) THEN ToNumber(originalId) ELSE Str(originalId)

\* the table holds no key of another type than that of v: a put or a get
\* with a key that is not of the type of the table's key attribute throws
\* a ValidationException
FitsSchema(v) == \A k \in DOMAIN store : store[k].status # "none" => k.type = v.type

\* handleUpload on a payload of one entry that has a url, as one step: the
\* check of original_id, the put of the item under the key as sent, the
\* dispatch and the response
UploadTyped ==
    /\ variant = "sequential"
    /\ api = Idle
    /\ nextId < MaxEntries
    /\ \E v \in OriginalIds :
         IF ~AcceptsOriginalId(v)
         THEN /\ resp' = Response(400, 0)
              /\ UNCHANGED <<store, pending>>
         ELSE \E put \in {FALSE, FitsSchema(v)} : \E invoked \in BOOLEAN :
                /\ store' = IF put THEN [store EXCEPT ![v] = InitialItem] ELSE store
                /\ pending' = IF put /\ invoked
                              THEN Append(pending, [id |-> v, probe |-> TRUE])
                              ELSE pending
                /\ resp' = IF put /\ invoked THEN Response(202, 0) ELSE Response(500, 0)
    /\ nextId' = nextId + 1
    /\ UNCHANGED <<variant, artifacts, saved, runs, api, searchResults, polled,
                   cachedSecrets, secretCalls>>

\* handleGetStatus of handler.js on the path parameter: 400 for an empty
\* one; 500 when dynamoDB.get throws for the type of the key; otherwise
\* the answer built from the item, or 404
TypedGetStatus(originalId) ==
    LET key == idForQuery(originalId)
    IN CASE originalId = <<>> -> StatusResponse(400, NoBody, "none")
         [] ~FitsSchema(key) -> StatusResponse(500, NoBody, "none")
         [] OTHER -> SeqHandleGetStatus(originalId, store[key])

\* GET /status/{original_id} with the text of an identifier that was
\* stored; a dynamoDB.get that fails for another reason is answered 500 and
\* leaves no trace
LookupStatus ==
    /\ variant = "sequential"
    /\ \E v \in {k \in DOMAIN store : store[k].status # "none"} : \E ok \in BOOLEAN :
         polled' = IF ok THEN [polled EXCEPT ![ToText(v)] = TypedGetStatus(ToText(v))]
                   ELSE polled
    /\ UNCHANGED <<variant, store, artifacts, saved, pending, runs, api, resp, nextId,
                   searchResults, cachedSecrets, secretCalls>>

----------------------------------------------------------------------------
(* getSecrets of utils.js: the secrets of the process, fetched from the    *)
(* secrets service and kept in cachedSecrets                               *)

MaxCalls == 3        \* calls of getSecrets in one behaviour

Null == [kind |-> "null"]

\* what secretsManager.send gives a call: it throws, it answers without a
\* SecretString, with a SecretString JSON.parse rejects, or with the secret
\* as the service holds it when it answers (the secret can be changed in
\* the service at any time)
SecretValues == {[kind |-> "secrets", version |-> n] : n \in 1..2}
ServiceAnswers ==
    {[kind |-> "throws"], [kind |-> "noSecretString"], [kind |-> "unparseable"]}
        \cup SecretValues

\* getSecrets up to its await: with a cached value it returns it at once,
\* without one it sends GetSecretValueCommand and waits
GetSecretsCall ==
    /\ variant = "batched"
    /\ Len(secretCalls) < MaxCalls
    /\ secretCalls' = Append(secretCalls,
          IF cachedSecrets # Null
          THEN [pc |-> "returned", contacted |-> FALSE, value |-> cachedSecrets]
          ELSE [pc |-> "await", contacted |-> TRUE, value |-> Null])
    /\ UNCHANGED <<variant, store, artifacts, saved, pending, runs, api, resp, nextId,
                   searchResults, polled, cachedSecrets>>

\* the rest of getSecrets once the service has answered: the parsed
\* secret is assigned to cachedSecrets and returned; every other answer
\* throws out of the call and leaves cachedSecrets alone
SecretsAnswer(c) ==
    /\ variant = "batched"
    /\ secretCalls[c].pc = "await"
    /\ \E answer \in ServiceAnswers :
         IF answer \in SecretValues
         THEN /\ cachedSecrets' = answer
              /\ secretCalls' = [secretCalls EXCEPT ![c].pc = "returned", ![c].value = answer]
         ELSE /\ secretCalls' = [secretCalls EXCEPT ![c].pc = "threw"]
              /\ UNCHANGED cachedSecrets
    /\ UNCHANGED <<variant, store, artifacts, saved, pending, runs, api, resp, nextId,
                   searchResults, polled>>

----------------------------------------------------------------------------
(* The specification *)

Variants == {"batched", "sequential", "synchronous"}

Init ==
    /\ variant \in Variants
    /\ store = [id \in Ids |-> NoRecord]
    /\ artifacts = {}
    /\ saved = {}
    /\ pending = <<>>
    /\ runs = <<>>
    /\ api = Idle
    /\ resp = NoResponse
    /\ nextId = 0
    /\ searchResults = <<>>
    /\ polled = [id \in Ids |-> NoResponse]
    /\ cachedSecrets = Null
    /\ secretCalls = <<>>

Next ==
    \/ InitiateBegin
    \/ InitiatePut
    \/ InitiateInvoke
    \/ InvokeWithoutProbe
    \/ \E k \in DOMAIN pending : StartRun(k)
    \/ \E r \in DOMAIN runs : Search(r)
    \/ \E r \in DOMAIN runs : StartBatch(r)
    \/ \E r \in DOMAIN runs : \E j \in DOMAIN runs[r].units : Fetch(r, j)
    \/ \E r \in DOMAIN runs : \E j \in DOMAIN runs[r].units : Upload(r, j)
    \/ \E r \in DOMAIN runs : \E j \in DOMAIN runs[r].units : Compare(r, j)
    \/ \E r \in DOMAIN runs : \E j \in DOMAIN runs[r].units : Cleanup(r, j)
    \/ \E r \in DOMAIN runs : FinishBatch(r)
    \/ \E r \in DOMAIN runs : Finalize(r)
    \/ \E r \in DOMAIN runs : Catch(r)
    \/ \E r \in DOMAIN runs : Outer(r)
    \/ UploadBegin
    \/ UploadEntry
    \/ UploadDispatch
    \/ \E k \in DOMAIN pending : SeqStart(k)
    \/ \E r \in DOMAIN runs : SeqP20(r)
    \/ \E r \in DOMAIN runs : SeqP40(r)
    \/ \E r \in DOMAIN runs : SeqItem(r)
    \/ \E r \in DOMAIN runs : SeqFinal(r)
    \/ \E r \in DOMAIN runs : SeqFail(r)
    \/ SyncBegin
    \/ \E r \in DOMAIN runs : SyncSearch(r)
    \/ \E r \in DOMAIN runs : SyncItem(r)
    \/ \E r \in DOMAIN runs : SyncReturn(r)

Spec == Init /\ [][Next]_vars

\* the deployment of the batched variant alone: handleInitiateSearch and
\* the processor of part_000
InitBatched == Init /\ variant = "batched"

NextBatched ==
    \/ InitiateBegin
    \/ InitiatePut
    \/ InitiateInvoke
    \/ InvokeWithoutProbe
    \/ \E k \in DOMAIN pending : StartRun(k)
    \/ \E r \in DOMAIN runs : Search(r)
    \/ \E r \in DOMAIN runs : StartBatch(r)
    \/ \E r \in DOMAIN runs : \E j \in DOMAIN runs[r].units : Fetch(r, j)
    \/ \E r \in DOMAIN runs : \E j \in DOMAIN runs[r].units : Upload(r, j)
    \/ \E r \in DOMAIN runs : \E j \in DOMAIN runs[r].units : Compare(r, j)
    \/ \E r \in DOMAIN runs : \E j \in DOMAIN runs[r].units : Cleanup(r, j)
    \/ \E r \in DOMAIN runs : FinishBatch(r)
    \/ \E r \in DOMAIN runs : Finalize(r)
    \/ \E r \in DOMAIN runs : Catch(r)
    \/ \E r \in DOMAIN runs : Outer(r)

SpecBatched == InitBatched /\ [][NextBatched]_vars

\* the batched deployment with its status endpoint, polled for the
\* identifiers uuidv4() can hand out (any other identifier is answered 404)
NextBatchedStatus ==
    \/ InitiateBegin
    \/ InitiatePut
    \/ InitiateInvoke
    \/ InvokeWithoutProbe
    \/ \E k \in DOMAIN pending : StartRun(k)
    \/ \E r \in DOMAIN runs : Search(r)
    \/ \E r \in DOMAIN runs : StartBatch(r)
    \/ \E r \in DOMAIN runs : \E j \in DOMAIN runs[r].units : Fetch(r, j)
    \/ \E r \in DOMAIN runs : \E j \in DOMAIN runs[r].units : Upload(r, j)
    \/ \E r \in DOMAIN runs : \E j \in DOMAIN runs[r].units : Compare(r, j)
    \/ \E r \in DOMAIN runs : \E j \in DOMAIN runs[r].units : Cleanup(r, j)
    \/ \E r \in DOMAIN runs : FinishBatch(r)
    \/ \E r \in DOMAIN runs : Finalize(r)
    \/ \E r \in DOMAIN runs : Catch(r)
    \/ \E r \in DOMAIN runs : Outer(r)
    \/ \E k \in DOMAIN Uuids : GetStatus(Uuids[k])

SpecBatchedStatus == InitBatched /\ [][NextBatchedStatus]_vars

\* the sequential deployment with its status endpoint, from the state an
\* earlier request has left: the record of original_id 1 is terminal (its
\* run stored the completed item, with or without a match, or the failed
\* item) and no processor is dispatched or running
EarlierOutcomes == {CompletedItem(<<>>), CompletedItem(<<[url |-> "u1"]>>), FailedItem}

InitSequentialStatus ==
    /\ variant = "sequential"
    /\ \E rec \in EarlierOutcomes :
          store = [id \in Ids |-> IF id = 1 THEN rec ELSE NoRecord]
    /\ artifacts = {}
    /\ saved = {}
    /\ pending = <<>>
    /\ runs = <<>>
    /\ api = Idle
    /\ resp = Response(202, 0)
    /\ nextId = 1
    /\ searchResults = <<>>
    /\ polled = [id \in Ids |-> NoResponse]
    /\ cachedSecrets = Null
    /\ secretCalls = <<>>

NextSequentialStatus ==
    \/ UploadBegin
    \/ UploadEntry
    \/ UploadDispatch
    \/ \E k \in DOMAIN pending : SeqStart(k)
    \/ \E r \in DOMAIN runs : SeqP20(r)
    \/ \E r \in DOMAIN runs : SeqP40(r)
    \/ \E r \in DOMAIN runs : SeqItem(r)
    \/ \E r \in DOMAIN runs : SeqFinal(r)
    \/ \E r \in DOMAIN runs : SeqFail(r)
    \/ \E id \in Ids : SeqGetStatus(id)

SpecSequentialStatus == InitSequentialStatus /\ [][NextSequentialStatus]_vars

\* performGoogleSearch examined on its own: a run about to call it, with
\* the responses its four queries will get
InitGoogle ==
    /\ variant = "batched"
    /\ store = [id \in Ids |-> NoRecord]
    /\ artifacts = {}
    /\ saved = {}
    /\ pending = <<>>
    /\ \E g \in WideGoogleInputs :
         runs = <<[responses |-> g] @@
                  [NewRun([id |-> 1, probe |-> TRUE]) EXCEPT !.pc = "google"]>>
    /\ api = Idle
    /\ resp = NoResponse
    /\ nextId = 0
    /\ searchResults = <<>>
    /\ polled = [id \in Ids |-> NoResponse]
    /\ cachedSecrets = Null
    /\ secretCalls = <<>>

GoogleSearch(r) ==
    /\ variant = "batched"
    /\ runs[r].pc = "google"
    /\ runs' = [runs EXCEPT ![r].cands = performGoogleSearch(runs[r].responses),
                            ![r].google = "ok",
                            ![r].pc = "done"]
    /\ UNCHANGED <<variant, store, artifacts, saved, pending, api, resp, nextId, searchResults, polled,
                   cachedSecrets, secretCalls>>

NextGoogle == \E r \in DOMAIN runs : GoogleSearch(r)

SpecGoogle == InitGoogle /\ [][NextGoogle]_vars

\* the deployment of the sequential variant alone: handleUpload and the
\* processor of unifiedHandler.js:506-623
InitSequential == Init /\ variant = "sequential"

NextSequential ==
    \/ UploadBegin
    \/ UploadEntry
    \/ UploadDispatch
    \/ \E k \in DOMAIN pending : SeqStart(k)
    \/ \E r \in DOMAIN runs : SeqP20(r)
    \/ \E r \in DOMAIN runs : SeqP40(r)
    \/ \E r \in DOMAIN runs : SeqItem(r)
    \/ \E r \in DOMAIN runs : SeqFinal(r)
    \/ \E r \in DOMAIN runs : SeqFail(r)

SpecSequential == InitSequential /\ [][NextSequential]_vars

\* the sequential processor on one dispatched entry: handleUpload has put
\* the item of original_id 1, dispatched the processor and answered 202
InitSequentialRun ==
    /\ variant = "sequential"
    /\ store = [id \in Ids |-> IF id = 1 THEN InitialItem ELSE NoRecord]
    /\ artifacts = {}
    /\ saved = {}
    /\ pending = <<[id |-> 1, probe |-> TRUE]>>
    /\ runs = <<>>
    /\ api = Idle
    /\ resp = Response(202, 0)
    /\ nextId = 1
    /\ searchResults = <<>>
    /\ polled = [id \in Ids |-> NoResponse]
    /\ cachedSecrets = Null
    /\ secretCalls = <<>>

NextSequentialRun ==
    \/ \E k \in DOMAIN pending : SeqStart(k)
    \/ \E r \in DOMAIN runs : SeqP20(r)
    \/ \E r \in DOMAIN runs : SeqP40(r)
    \/ \E r \in DOMAIN runs : SeqItem(r)
    \/ \E r \in DOMAIN runs : SeqFinal(r)
    \/ \E r \in DOMAIN runs : SeqFail(r)

SpecSequentialRun == InitSequentialRun /\ [][NextSequentialRun]_vars

\* the upload and the status handler of handler.js on typed identifiers:
\* the table is keyed by the values a payload can carry, the answers by the
\* text of the path
InitLookup ==
    /\ variant = "sequential"
    /\ store = [v \in OriginalIds |-> NoRecord]
    /\ artifacts = {}
    /\ saved = {}
    /\ pending = <<>>
    /\ runs = <<>>
    /\ api = Idle
    /\ resp = NoResponse
    /\ nextId = 0
    /\ searchResults = <<>>
    /\ polled = [text \in Texts |-> NoResponse]
    /\ cachedSecrets = Null
    /\ secretCalls = <<>>

NextLookup ==
    \/ UploadTyped
    \/ LookupStatus

SpecLookup == InitLookup /\ [][NextLookup]_vars

\* getSecrets examined on its own: the calls one process makes, which
\* overlap when they are made before an answer has arrived (as the two of
\* performBingSearch and performGoogleSearch under one Promise.all do)
NextSecrets ==
    \/ GetSecretsCall
    \/ \E c \in DOMAIN secretCalls : SecretsAnswer(c)

SpecSecrets == InitBatched /\ [][NextSecrets]_vars

\* the deployment of the synchronous handler alone
InitSynchronous == Init /\ variant = "synchronous"

NextSynchronous ==
    \/ SyncBegin
    \/ \E r \in DOMAIN runs : SyncSearch(r)
    \/ \E r \in DOMAIN runs : SyncItem(r)
    \/ \E r \in DOMAIN runs : SyncReturn(r)

SpecSynchronous == InitSynchronous /\ [][NextSynchronous]_vars

----------------------------------------------------------------------------
(* Properties *)

Batched == variant = "batched"
Sequential == variant = "sequential"
Synchronous == variant = "synchronous"

Last(s) == s[Len(s)]

\* the progress a run stored last while processing; 0, the progress of the
\* initial item, before its first write
LastProgress(log) == IF log = <<>> THEN 0 ELSE Last(log).progress

\* the status writes of a log with the given status
WritesOf(log, status) == SelectSeq(log, LAMBDA w : w.status = status)

\* no handler is running and no processor is dispatched or running
Quiescent ==
    /\ api = Idle
    /\ pending = <<>>
    /\ \A r \in DOMAIN runs : runs[r].pc = "done"

(* C1: once the record of an identifier has status completed or failed,    *)
(* no later step changes the record.                                       *)
C1_TerminalNeverOverwritten ==
    [][\A id \in Ids : Terminal(store[id]) => store'[id] = store[id]]_vars

(* C2: the progress held by a record never decreases from one processing   *)
(* state of the record to the next, in either processor.                   *)
C2_StoredProgressNonDecreasing ==
    [][\A id \in Ids :
          (/\ store[id].status = "processing"
           /\ store'[id].status = "processing")
          => store'[id].progress >= store[id].progress]_vars

\* what holds of C2: the progress values one run writes with status
\* processing never decrease, starting from the 0 of the initial item, and
\* a record of the batched variant never shows a decrease
RunProgressNonDecreasing ==
    [][/\ \A r \in DOMAIN runs :
             (/\ Len(runs'[r].log) > Len(runs[r].log)
              /\ Last(runs'[r].log).status = "processing")
             => Last(runs'[r].log).progress >= LastProgress(runs[r].log)
       /\ \A id \in Ids :
             (/\ Batched
              /\ store[id].status = "processing"
              /\ store'[id].status = "processing")
             => store'[id].progress >= store[id].progress]_vars

(* C3: every record created with status processing reaches completed or    *)
(* failed; stated on the final result: once every handler has returned and *)
(* no processor is dispatched or running, no record is left in processing. *)
C3_NoRecordLeftProcessing ==
    Quiescent => \A id \in Ids : store[id].status # "processing"

AllUnits == UNION {Range(runs[r].units) : r \in DOMAIN runs}

(* C4 as stated: the artifact of a unit of work is absent from the bucket  *)
(* once processImage has returned, whatever the comparison did.            *)
C4_ArtifactAbsentAfterReturn ==
    \A u \in AllUnits : u.pc = "done" => u.key \notin artifacts

(* C4 as amended: the artifact of a unit of work is absent from the bucket *)
(* once processImage has returned, whatever the comparison did, unless the *)
(* deletion request of the finally block itself failed.                    *)
C4_ArtifactAbsentUnlessDeleteFailed ==
    \A u \in AllUnits :
        (u.pc = "done" /\ u.cleanup # "failed") => u.key \notin artifacts

\* two units of one batch have returned with their artifacts deleted: one
\* after a comparator error, one after a match
C4_Witness ==
    \E r \in DOMAIN runs : \E u, v \in Range(runs[r].units) :
        /\ u.pc = "done" /\ u.fate = "match" /\ u.cleanup = "deleted"
        /\ v.pc = "done" /\ v.fate = "failed" /\ v.cleanup = "deleted"
        /\ <<r, 2>> \in {u.key, v.key}
        /\ artifacts = {}

(* C5: in a processSearch run at most CONCURRENT_PROCESSING units of work  *)
(* have started and not yet returned.                                      *)
C5_ConcurrencyBound ==
    \A r \in DOMAIN runs :
        Cardinality(InFlight(runs[r].units)) <= CONCURRENT_PROCESSING

\* a full batch is in flight while more candidates than the width wait
C5_Witness ==
    \E r \in DOMAIN runs :
        /\ Len(runs[r].cands) > CONCURRENT_PROCESSING
        /\ Cardinality(InFlight(runs[r].units)) = CONCURRENT_PROCESSING
        /\ \E j \in DOMAIN runs[r].units : runs[r].units[j].pc = "compare"

(* C6: batches are consecutive chunks of CONCURRENT_PROCESSING candidates  *)
(* run in sequence: the units present are those of the current batch only, *)
(* each is the candidate at its position of the list, and when batch n+1   *)
(* starts exactly n progress writes have been issued, one per batch.       *)
C6_BatchesInSequence ==
    \A r \in DOMAIN runs :
        Batched =>
        LET run == runs[r]
        IN /\ \A j \in DOMAIN run.units :
                /\ run.units[j].batch = run.i
                /\ j <= CONCURRENT_PROCESSING
                /\ run.units[j].cand = run.cands[run.i + j]
           /\ run.pc = "batch" =>
                /\ Len(run.units) = Min(CONCURRENT_PROCESSING, Len(run.cands) - run.i)
                /\ Len(WritesOf(run.log, "processing")) * CONCURRENT_PROCESSING = run.i
                /\ run.processed = run.i
           /\ run.pc = "loop" =>
                /\ run.units = <<>>
                /\ Len(WritesOf(run.log, "processing")) * CONCURRENT_PROCESSING = run.i

\* the second batch is in flight after one progress write
C6_Witness ==
    \E r \in DOMAIN runs :
        /\ Batched
        /\ runs[r].pc = "batch"
        /\ runs[r].i = CONCURRENT_PROCESSING
        /\ Len(runs[r].log) = 1
        /\ \E j \in DOMAIN runs[r].units : runs[r].units[j].pc = "upload"

(* C7: a failing unit of work never rejects its batch: every unit          *)
(* resolves, a failed unit returns null, no run leaves its try block       *)
(* because of a unit, and the batch counts every candidate of the chunk.   *)
C7_UnitFailureContained ==
    \A r \in DOMAIN runs :
        Batched =>
        /\ runs[r].err # "unit"
        /\ \A u \in Range(runs[r].units) :
              /\ u.settled # "rejected"
              /\ u.pc = "done" => u.settled = "resolved"
              /\ u.fate = "failed" => u.result = <<>>
        /\ runs[r].pc = "loop" =>
              runs[r].processed = Min(runs[r].i, Len(runs[r].cands))
        /\ Len(runs[r].matches.bing) + Len(runs[r].matches.google) <= runs[r].processed

\* in one batch a unit has failed and returned while its sibling matched
C7_Witness ==
    \E r \in DOMAIN runs :
        /\ Batched
        /\ Len(runs[r].units) = 2
        /\ runs[r].units[1].pc = "done" /\ runs[r].units[1].fate = "failed"
        /\ runs[r].units[2].pc = "done" /\ runs[r].units[2].fate = "match"

(* C8: a record of the batched variant with status failed has progress 0   *)
(* and no matches.                                                         *)
C8_FailedHasNoMatches ==
    \A id \in Ids :
        (Batched /\ store[id].status = "failed") =>
            /\ store[id].progress = 0
            /\ store[id].results.bing = <<>>
            /\ store[id].results.google = <<>>

(* C9: a run in which exactly one of the two providers threw does not      *)
(* enter the failure path.                                                 *)
C9_OneProviderFailureTolerated ==
    \A r \in DOMAIN runs :
        (/\ Batched
         /\ {runs[r].bing, runs[r].google} = {"ok", "throw"})
        => runs[r].err # "provider"

(* C10: a run whose providers all failed or returned no candidate writes   *)
(* completed and never failed, unless a status write itself failed.        *)
C10_NoCandidatesIsSuccess ==
    \A r \in DOMAIN runs :
        (/\ Batched
         /\ \/ runs[r].bing = "throw" /\ runs[r].google = "throw"
            \/ runs[r].bing = "ok" /\ runs[r].google = "ok" /\ runs[r].cands = <<>>
         /\ runs[r].err # "store")
        => /\ WritesOf(runs[r].log, "failed") = <<>>
           /\ runs[r].pc \notin {"catch", "outer"}

\* a record as updateFailedStatus leaves it
IsFailedItem(rec) == rec.status = "failed" /\ rec.progress = 0 /\ rec.matches = <<>>

C12_StoreFailureTolerated ==
    \A r \in DOMAIN runs :
        runs[r].err \in {"none", "store"} =>
            /\ runs[r].pc \notin {"catch", "outer", "fail"}
            /\ WritesOf(runs[r].log, "failed") = <<>>

(* C13: the record of a request that ended completed has totalProcessed    *)
(* equal to totalAvailable and to the length of the candidate list of the  *)
(* request, and the run counted every candidate.                           *)
C13_CompletedCountsAllCandidates ==
    \A r \in DOMAIN runs :
        (Batched /\ store[runs[r].id].status = "completed") =>
            /\ store[runs[r].id].totalProcessed = Len(runs[r].cands)
            /\ store[runs[r].id].totalAvailable = Len(runs[r].cands)
            /\ runs[r].processed = Len(runs[r].cands)

\* a request of three candidates, one more than the batch width, has ended
\* completed with a single match: the other candidates failed or did not
\* match
C13_Witness ==
    \E r \in DOMAIN runs :
        /\ Batched
        /\ store[runs[r].id].status = "completed"
        /\ Len(runs[r].cands) = CONCURRENT_PROCESSING + 1
        /\ store[runs[r].id].totalProcessed = CONCURRENT_PROCESSING + 1
        /\ Len(store[runs[r].id].results.bing) + Len(store[runs[r].id].results.google) = 1

\* the matches a run has accumulated, and the targetUrl of one of them
RunMatches(run) == IF Batched THEN run.matches.bing \o run.matches.google ELSE run.matches
MatchUrl(m) == IF Sequential THEN m.url ELSE m.targetUrl

\* the targetUrls of the candidates the providers returned to a run
ReturnedUrls(run) == {c.targetUrl : c \in Range(run.cands)}

(* C14: every match a run has accumulated, and every match it has saved,   *)
(* has the targetUrl of a candidate the providers returned to that run.    *)
C14_MatchesFromOwnCandidates ==
    \A r \in DOMAIN runs :
        /\ \A m \in Range(RunMatches(runs[r])) : MatchUrl(m) \in ReturnedUrls(runs[r])
        /\ \A sv \in saved :
              sv.key[1] = r => sv.item.targetUrl \in ReturnedUrls(runs[r])

(* C15: the candidates an invocation of the synchronous handler processes  *)
(* are those of its own provider response, whatever the process served     *)
(* before: while it runs its loop and when it has answered 200,            *)
(* searchResults holds exactly the candidates built from its response.     *)
C15_InvocationsIndependent ==
    \A r \in DOMAIN runs :
        (Synchronous /\ (runs[r].pc = "item" \/ runs[r].code = 200))
        => /\ searchResults = runs[r].cands
           /\ runs[r].processed <= Len(runs[r].cands)

(* C16: the candidate list of a processSearch run holds no two candidates  *)
(* with the same targetUrl.                                                *)
C16_CandidatesUniqueByUrl ==
    \A r \in DOMAIN runs :
        Batched =>
            \A j, k \in DOMAIN runs[r].cands :
                runs[r].cands[j].targetUrl = runs[r].cands[k].targetUrl => j = k

\* the runs of SpecGoogle whose call of performGoogleSearch has returned
Searched == {r \in DOMAIN runs : "responses" \in DOMAIN runs[r] /\ runs[r].pc = "done"}

\* the results with a given targetUrl, in order of occurrence
WithUrl(flat, url) == SelectSeq(flat, LAMBDA x : x.targetUrl = url)

\* the position of the first result with a given targetUrl
FirstIndex(flat, url) ==
    CHOOSE k \in DOMAIN flat :
        /\ flat[k].targetUrl = url
        /\ \A j \in 1..(k - 1) : flat[j].targetUrl # url

(* C17: deduplication yields exactly one entry per distinct targetUrl of    *)
(* the flattened results, and the searchTerm of the entry is the           *)
(* concatenation, in order of occurrence, of the search terms of all       *)
(* results with that targetUrl.                                            *)
C17_OneEntryPerUrlWithAllTerms ==
    \A r \in Searched :
        LET flat == FlatResults(runs[r].responses)
            out == runs[r].cands
        IN /\ {out[k].targetUrl : k \in DOMAIN out} = {flat[k].targetUrl : k \in DOMAIN flat}
           /\ \A j, k \in DOMAIN out : out[j].targetUrl = out[k].targetUrl => j = k
           /\ \A k \in DOMAIN out :
                 LET same == WithUrl(flat, out[k].targetUrl)
                 IN out[k].searchTerm = Flat([j \in 1..Len(same) |-> same[j].searchTerm])

\* a link returned by the first and by the third query, with another link
\* in between, has given one entry carrying both terms
C17_Witness ==
    \E r \in Searched :
        /\ Len(FlatResults(runs[r].responses)) = 3
        /\ Len(runs[r].cands) = 2
        /\ runs[r].cands[1].searchTerm = <<"t1", "t3">>
        /\ runs[r].cands[2].searchTerm = <<"t2">>

(* C18: the entry kept for a targetUrl has the non-provenance fields of    *)
(* the first result with that targetUrl, and the entries are ordered by    *)
(* the position of their first occurrence in the flattened results.        *)
C18_FirstOccurrenceKeptInOrder ==
    \A r \in Searched :
        LET flat == FlatResults(runs[r].responses)
            out == runs[r].cands
        IN /\ \A k \in DOMAIN out :
                 LET first == flat[FirstIndex(flat, out[k].targetUrl)]
                 IN /\ out[k].resultId = first.resultId
                    /\ out[k].source = first.source
           /\ \A j, k \in DOMAIN out :
                 j < k => FirstIndex(flat, out[j].targetUrl) < FirstIndex(flat, out[k].targetUrl)

\* u2, u1, u2 were returned: the entries are u2 then u1, and the entry of
\* u2 is the first result of the first query
C18_Witness ==
    \E r \in Searched :
        /\ Len(FlatResults(runs[r].responses)) = 3
        /\ Len(runs[r].cands) = 2
        /\ runs[r].cands[1].targetUrl = "u2"
        /\ runs[r].cands[1].resultId = <<"t1", 1>>
        /\ runs[r].cands[1].searchTerm = <<"t1", "t4">>
        /\ runs[r].cands[2].targetUrl = "u1"

(* C20: a sequential run whose probe was fetched as an empty or an         *)
(* undecodable payload calls neither the provider nor the comparator and   *)
(* takes the failure path, whose only write is the put of the failed item. *)
C20_UnusableProbeEndsFailed ==
    \A r \in DOMAIN runs :
        (Sequential /\ runs[r].fetched \in {"empty", "undecodable", "undecodableOversize"})
        => /\ runs[r].bing = "pending"
           /\ runs[r].cands = <<>> /\ runs[r].processed = 0
           /\ runs[r].pc \in {"fail", "done"}
           /\ runs[r].pc = "done" => runs[r].log = <<Write("failed", 0)>>

\* what holds of the failure path: a sequential run for which
\* processImageUrl returned null calls neither the provider nor the
\* comparator, and its only write is the put of the failed item: status
\* failed, progress 0, no matches
ProbeFailureIssuesFailed ==
    [][\A r \in DOMAIN runs :
          (Sequential /\ ~runs[r].probe) =>
          /\ runs[r].bing = "pending"
          /\ runs[r].cands = <<>> /\ runs[r].processed = 0 /\ runs[r].matches = <<>>
          /\ runs[r].pc \in {"fail", "done"}
          /\ runs[r].pc = "fail" => runs[r].log = <<>>
          /\ runs[r].pc = "done" =>
                /\ runs[r].log = <<Write("failed", 0)>>
                /\ runs'[r] = runs[r]
          /\ (runs[r].pc = "fail" /\ runs'[r].pc = "done") =>
                \/ IsFailedItem(store'[runs[r].id])
                \/ store'[runs[r].id] = store[runs[r].id]]_vars

(* C19: a processSearch run whose event carries no probe calls no         *)
(* provider, processes no candidate, stores no artifact, and issues a      *)
(* single status write, the one to failed with progress 0.                 *)
C19_AbsentProbeSingleFailedWrite ==
    \A r \in DOMAIN runs :
        (Batched /\ ~runs[r].probe) =>
            /\ runs[r].bing = "pending" /\ runs[r].google = "pending"
            /\ runs[r].cands = <<>> /\ runs[r].units = <<>>
            /\ artifacts = {}
            /\ Len(runs[r].log) <= 1
            /\ runs[r].pc = "done" => runs[r].log = <<Write("failed", 0)>>

(* C21: the normalizer returns null whenever the fetched payload is empty  *)
(* or cannot be decoded as an image: a sequential run whose probe was      *)
(* fetched as such a payload has no probe buffer to search with.           *)
C21_UndecodableGivesNull ==
    \A r \in DOMAIN runs :
        (Sequential /\ runs[r].fetched \in {"empty", "undecodable", "undecodableOversize"})
        => ~runs[r].probe

\* the fates of the candidates of a run are, in some order, those of fs
SameFates(fates, fs) ==
    /\ Len(fates) = Len(fs)
    /\ \A f \in Range(fs) :
          Cardinality({k \in DOMAIN fates : fates[k] = f})
              = Cardinality({k \in DOMAIN fs : fs[k] = f})

MatchCount(rec) == Len(rec.results.bing) + Len(rec.results.google)

(* C22: a run of three candidates of which, in any order, one failed (to   *)
(* fetch, or at a later step), one was compared without a match and one    *)
(* with a match, and in which nothing else failed, ends with the record    *)
(* completed, progress 100, totalProcessed 3, totalAvailable 3 and exactly *)
(* one match.                                                              *)
C22_ThreeCandidateScenario ==
    \A r \in DOMAIN runs :
        (/\ Batched
         /\ Len(runs[r].cands) = 3
         /\ runs[r].pc = "done" /\ runs[r].err = "none"
         /\ SameFates(runs[r].fates, <<"failed", "nomatch", "match">>))
        => /\ store[runs[r].id].status = "completed"
           /\ store[runs[r].id].progress = 100
           /\ store[runs[r].id].totalProcessed = 3
           /\ store[runs[r].id].totalAvailable = 3
           /\ MatchCount(store[runs[r].id]) = 1

\* the match was in the first batch and the failure in the second
C22_Witness ==
    \E r \in DOMAIN runs :
        /\ Batched
        /\ runs[r].pc = "done" /\ runs[r].err = "none"
        /\ runs[r].fates = <<"nomatch", "match", "failed">>
        /\ store[runs[r].id].status = "completed"
        /\ MatchCount(store[runs[r].id]) = 1

(* C23: identity metadata is optional: an initiate call whose body holds a *)
(* probe image is never refused for a missing name, location or employer;  *)
(* the only parameter whose absence is answered 400 is the probe image.    *)
C23_IdentityMetadataOptional ==
    (Batched /\ resp.code = 400) => resp.missing = "base64Image"

\* the status endpoint has answered for the identifier out of a read of
\* the store
Answered(id) == polled[id] # NoResponse

(* C24: the status endpoint answers 404 exactly when no record exists, and *)
(* for every record that exists it answers 200 with a body in which status *)
(* and progress are those of the record and totalProcessed and              *)
(* totalAvailable are numbers, 0 when the record does not hold them; it     *)
(* never answers 500 for an existing record.                               *)
C24_StatusWellFormed ==
    \A id \in Ids :
        (Batched /\ Answered(id)) =>
            /\ polled[id].code = 404 <=> polled[id].seen = "none"
            /\ polled[id].seen # "none" =>
                  /\ polled[id].code = 200
                  /\ polled[id].body.status = polled[id].seen
                  /\ polled[id].body.progress \in 0..100
                  /\ polled[id].body.totalProcessed >= 0
                  /\ polled[id].body.totalAvailable >= 0

(* C25: once the status endpoint has answered for a request out of a       *)
(* terminal record, every later answer for that request is identical,      *)
(* whatever was submitted, processed or polled in between.                 *)
C25_TerminalPollsIdentical ==
    [][\A id \in Ids :
          (Answered(id) /\ polled[id].seen \in {"completed", "failed"})
          => polled'[id] = polled[id]]_vars

(* C26: after the k-th batch of a run over N > 0 candidates with width W   *)
(* the status write issued has status processing and, with                 *)
(* totalProcessed = min(k * W, N), progress round(totalProcessed / N * 100);*)
(* the record then holds that status and progress, totalProcessed and      *)
(* totalAvailable = N; the progress is within 0..100, and is 100 after the *)
(* last batch.                                                             *)
C26_ProgressAfterBatch ==
    \A r \in DOMAIN runs :
        (/\ Batched
         /\ runs[r].pc \in {"loop", "batch"}
         /\ runs[r].i > 0)
        => LET rec == store[runs[r].id]
               N == Len(runs[r].cands)
               k == runs[r].i \div CONCURRENT_PROCESSING
               done == Min(k * CONCURRENT_PROCESSING, N)
           IN /\ Len(runs[r].log) = k
              /\ Last(runs[r].log) = Write("processing", MathRound(done * 100, N))
              /\ rec.status = "processing"
              /\ rec.progress = MathRound(done * 100, N)
              /\ rec.totalProcessed = done
              /\ rec.totalAvailable = N
              /\ rec.progress \in 0..100
              /\ runs[r].i >= N => rec.progress = 100

\* three candidates at width two: 67 was written after the first batch and
\* 100, with totalProcessed 3, after the second
C26_Witness ==
    \E r \in DOMAIN runs :
        /\ Batched
        /\ runs[r].pc = "loop"
        /\ Len(runs[r].cands) = CONCURRENT_PROCESSING + 1
        /\ runs[r].i = 2 * CONCURRENT_PROCESSING
        /\ runs[r].log = <<Write("processing", 67), Write("processing", 100)>>
        /\ store[runs[r].id].totalProcessed = CONCURRENT_PROCESSING + 1
        /\ store[runs[r].id].status = "processing"

IsPrefix(a, b) == Len(a) <= Len(b) /\ SubSeq(b, 1, Len(a)) = a

(* C27: while a request is processing, the match lists of its record are   *)
(* append-only: each write of a batch leaves the lists stored before it as *)
(* prefixes, per source, of the lists it stores, and so do the lists the   *)
(* run accumulates.                                                        *)
C27_MatchesAppendOnly ==
    [][/\ \A id \in Ids :
             (/\ Batched
              /\ store[id].status = "processing"
              /\ store'[id].status = "processing")
             => /\ IsPrefix(store[id].results.bing, store'[id].results.bing)
                /\ IsPrefix(store[id].results.google, store'[id].results.google)
       /\ \A r \in DOMAIN runs :
             Batched =>
                /\ IsPrefix(runs[r].matches.bing, runs'[r].matches.bing)
                /\ IsPrefix(runs[r].matches.google, runs'[r].matches.google)]_vars

\* the first batch stored a match and the second added one behind it
C27_Witness ==
    \E r \in DOMAIN runs :
        /\ Batched
        /\ runs[r].pc = "loop"
        /\ runs[r].fates = <<"match", "nomatch", "match">>
        /\ store[runs[r].id].status = "processing"
        /\ MatchCount(store[runs[r].id]) = 2
        /\ store[runs[r].id].results.bing = runs[r].matches.bing
        /\ store[runs[r].id].results.google = runs[r].matches.google

\* what a step appended to a list
Appended(old, new) == SubSeq(new, Len(old) + 1, Len(new))

\* the candidates of the units of a batch that matched, of one source, in
\* the order of the units in the sequence
MatchedOf(units, source) ==
    Flat([j \in 1..Len(units) |->
            IF units[j].fate = "match" /\ units[j].cand.source = source
            THEN <<units[j].cand>> ELSE <<>>])

\* the units of a settled batch in order of completion
ByCompletion(units) ==
    [k \in 1..Len(units) |-> units[CHOOSE j \in DOMAIN units : units[j].rank = k]]

\* the run awaits a batch, and the step collects its results
Collects(r) ==
    /\ Batched
    /\ runs[r].pc = "batch"
    /\ Len(runs'[r].fates) > Len(runs[r].fates)

(* C28 as stated: within a batch the matches are appended to the           *)
(* accumulated lists in the order in which their units of work completed.  *)
C28_AppendedInCompletionOrder ==
    [][\A r \in DOMAIN runs :
          Collects(r) =>
          LET batch == ByCompletion(BatchUnits(runs[r].units, runs[r].i))
          IN /\ Appended(runs[r].matches.bing, runs'[r].matches.bing)
                    = MatchedOf(batch, "bing")
             /\ Appended(runs[r].matches.google, runs'[r].matches.google)
                    = MatchedOf(batch, "google")]_vars

(* C28 as amended: within a batch the matches are appended to the          *)
(* accumulated lists in the order of their candidates in the input list,   *)
(* whatever the order in which the units of work completed.                *)
C28_AppendedInInputOrder ==
    [][\A r \in DOMAIN runs :
          Collects(r) =>
          LET batch == BatchUnits(runs[r].units, runs[r].i)
          IN /\ Appended(runs[r].matches.bing, runs'[r].matches.bing)
                    = MatchedOf(batch, "bing")
             /\ Appended(runs[r].matches.google, runs'[r].matches.google)
                    = MatchedOf(batch, "google")]_vars

\* a batch has settled with two matches of one source, the second
\* candidate having completed before the first
C28_Witness ==
    \E r \in DOMAIN runs :
        /\ Batched
        /\ runs[r].pc = "batch"
        /\ Len(runs[r].units) = 2
        /\ runs[r].units[1].pc = "done" /\ runs[r].units[1].fate = "match"
        /\ runs[r].units[2].pc = "done" /\ runs[r].units[2].fate = "match"
        /\ runs[r].units[1].cand.source = runs[r].units[2].cand.source
        /\ runs[r].units[1].rank = 2
        /\ runs[r].units[2].rank = 1

\* the query variants whose call succeeded
Succeeded(responses) == {t \in 1..4 : responses[t].ok}

(* C29: performGoogleSearch makes one call per query variant and returns   *)
(* whatever subset of the calls failed: a failed variant contributes no    *)
(* candidate and no search term, and the candidates returned are the       *)
(* links of the variants that succeeded, one entry per link, each carrying *)
(* the terms of exactly the succeeded variants that returned it.           *)
C29_FailedVariantsYieldNothing ==
    \A r \in Searched :
        LET responses == runs[r].responses
            out == runs[r].cands
        IN /\ runs[r].google = "ok"
           /\ {out[k].targetUrl : k \in DOMAIN out}
                 = UNION {Range(responses[t].items) : t \in Succeeded(responses)}
           /\ \A j, k \in DOMAIN out : out[j].targetUrl = out[k].targetUrl => j = k
           /\ \A k \in DOMAIN out : \A t \in 1..4 :
                 SearchTerms[t] \in Range(out[k].searchTerm)
                 <=> (/\ t \in Succeeded(responses)
                      /\ out[k].targetUrl \in Range(responses[t].items))

\* the first and the third call failed; the second returned u1 and the
\* fourth u1 and u2: two candidates, u1 with both terms
C29_Witness ==
    \E r \in Searched :
        /\ Succeeded(runs[r].responses) = {2, 4}
        /\ runs[r].responses[2].items = <<"u1">>
        /\ runs[r].responses[4].items = <<"u1", "u2">>
        /\ Len(runs[r].cands) = 2
        /\ runs[r].cands[1].searchTerm = <<"t2", "t4">>
        /\ runs[r].cands[2].searchTerm = <<"t4">>

\* a unit has attempted no deletion while it runs, and has attempted its
\* deletion when it has returned; what it returns is decided by the
\* comparison alone
CleanupAttemptedOnReturn(u) ==
    /\ u.pc # "done" => u.cleanup = "none" /\ u.settled = "pending"
    /\ u.pc = "done" =>
          /\ u.cleanup \in {"deleted", "failed"}
          /\ u.settled = "resolved"
          /\ u.fate \in {"match", "matchUnsaved", "nomatch", "failed"}
          /\ u.result = IF u.fate = "match" THEN <<u.cand>> ELSE <<>>

(* C30: on every exit path of processImage (undecodable image, fetch or    *)
(* upload failure, match, no match, comparator error) the deletion of the  *)
(* unit's artifact is attempted exactly once, as the last step of the      *)
(* unit: it touches no key but the unit's own, and whether it succeeds or  *)
(* fails the unit resolves with the value the comparison decided and the   *)
(* run is left as it was.                                                  *)
C30_CleanupOnEveryPath ==
    [][\A r \in DOMAIN runs :
          Batched =>
          /\ \A j \in DOMAIN runs[r].units : CleanupAttemptedOnReturn(runs[r].units[j])
          /\ \A j \in DOMAIN runs'[r].units : CleanupAttemptedOnReturn(runs'[r].units[j])
          /\ \A j \in DOMAIN runs[r].units :
                LET u == runs[r].units[j]
                IN /\ (u.pc # "cleanup" /\ j \in DOMAIN runs'[r].units
                          /\ runs'[r].units[j].pc = "done")
                       => runs'[r].units[j] = u
                   /\ (u.pc = "cleanup" /\ runs'[r].units[j] # u) =>
                       /\ runs'[r].units[j].pc = "done"
                       /\ runs'[r].units[j].result = u.result
                       /\ runs'[r].units[j].fate = u.fate
                       /\ artifacts' \in {artifacts, artifacts \ {u.key}}
                       /\ runs'[r].pc = runs[r].pc
                       /\ runs'[r].err = runs[r].err
                       /\ runs'[r].matches = runs[r].matches]_vars

\* a run has ended completed with its match although the deletion of the
\* artifact of the matching candidate failed
C30_Witness ==
    \E r \in DOMAIN runs :
        /\ Batched
        /\ runs[r].pc = "done" /\ runs[r].err = "none"
        /\ runs[r].fates = <<"match", "failed">>
        /\ artifacts = {<<r, 1>>}
        /\ store[runs[r].id].status = "completed"
        /\ MatchCount(store[runs[r].id]) = 1

\* the events a handler dispatched: handleInitiateSearch always sends the
\* probe, handleUpload is the only source of events of its processor
HandlerEvent(e) == Sequential \/ e.probe

\* the identifiers of the processors a handler has dispatched
Accepted ==
    {pending[k].id : k \in {j \in DOMAIN pending : HandlerEvent(pending[j])}}
        \cup {runs[r].id : r \in {j \in DOMAIN runs : HandlerEvent(runs[j])}}

Known(id) == store[id].status # "none"

\* what the status endpoint of the deployed variant answers for a record
StatusAnswer(id) ==
    IF Batched THEN handleGetStatus(store[id]) ELSE SeqHandleGetStatus(id, store[id])

\* the events a step has dispatched
Dispatched == SubSeq(pending', Len(pending) + 1, Len(pending'))

(* C31: the initiate and the upload handler put the status record before   *)
(* they dispatch the processor: a put of a handler dispatches nothing, the *)
(* dispatch is the last step of the call, stores nothing, and the record   *)
(* of every event it sends is already in the store; so the record of every *)
(* processor dispatched or running exists, and the status endpoint never   *)
(* answers 404 for it.                                                     *)
C31_RecordCreatedBeforeDispatch ==
    [][(Batched \/ Sequential) =>
       /\ (api' # api /\ store' # store) => pending' = pending
       /\ (api' # api /\ Len(pending') > Len(pending)) =>
             /\ store' = store
             /\ api' = Idle
             /\ \A k \in DOMAIN Dispatched : Known(Dispatched[k].id)
       /\ \A id \in Accepted' : Known(id)' /\ StatusAnswer(id)'.code # 404]_vars

\* an upload of two entries was answered 202: both records were put before
\* either processor was dispatched, one processor has stored progress and
\* the other has not started
C31_Witness ==
    /\ Sequential
    /\ resp = Response(202, 0)
    /\ Len(pending) = 1 /\ Len(runs) = 1
    /\ pending[1].id # runs[1].id
    /\ runs[1].log # <<>>
    /\ store[runs[1].id].progress = 20
    /\ store[pending[1].id] = InitialItem

\* the step ends a call of handleUpload with a 400 or a 500
RejectsUpload ==
    /\ Sequential
    /\ api.op = "upload"
    /\ api' = Idle
    /\ resp'.code \in {400, 500}

(* C32: an upload call that is rejected with 400 or 500 dispatches no      *)
(* processor and leaves no entry of its payload with a record in status    *)
(* processing; stated for a call made while no processor was dispatched or *)
(* running, so that no record is processing on behalf of an earlier call.  *)
C32_RejectedUploadLeavesNoTrace ==
    [][(RejectsUpload /\ pending = <<>> /\ runs = <<>>) =>
       /\ pending' = pending
       /\ \A k \in DOMAIN api.payload :
             api.payload[k].original_id \in Ids
             => store'[api.payload[k].original_id].status # "processing"]_vars

(* C33: for every original_id handleUpload accepts (a number, 0 included,  *)
(* a numeric string or any other string), the status request whose path is *)
(* the text of that original_id is answered from the record stored for it. *)
C33_LookupFindsRecord ==
    \A v \in DOMAIN store :
        (/\ Sequential
         /\ v \in OriginalIds
         /\ store[v].status # "none"
         /\ polled[ToText(v)] # NoResponse)
        => /\ polled[ToText(v)].code = 200
           /\ polled[ToText(v)].seen = store[v].status

(* C34: every status record of the batched and of the sequential           *)
(* deployment has status processing, completed or failed and a progress    *)
(* in 0..100, which is 100 when the status is completed and 0 when it is   *)
(* failed.                                                                 *)
C34_RecordWellFormed ==
    \A id \in DOMAIN store :
        ((Batched \/ Sequential) /\ store[id].status # "none") =>
            /\ store[id].status \in {"processing", "completed", "failed"}
            /\ store[id].progress \in 0..100
            /\ store[id].status = "completed" => store[id].progress = 100
            /\ store[id].status = "failed" => store[id].progress = 0

(* C35: the sequential processor counts every candidate it has gone        *)
(* through exactly once, whatever its outcome, so that with N > 0          *)
(* candidates the write issued just before the completed item is the       *)
(* progress 100.                                                           *)
C35_EveryCandidateCounted ==
    \A r \in DOMAIN runs :
        (Sequential /\ Len(runs[r].cands) > 0) =>
            /\ runs[r].processed = runs[r].i
            /\ (Len(runs[r].log) > 1 /\ Last(runs[r].log).status = "completed")
                  => runs[r].log[Len(runs[r].log) - 1] = Write("processing", 100)

\* the comparator reported a match for the candidate of the unit, whether
\* or not the put of the match succeeded
ComparatorMatched(fate) == fate \in {"match", "matchUnsaved"}

(* C36: a candidate for which the comparator reported a match is among the *)
(* matches of its run even when the put of its match failed: the unit      *)
(* returns the match, and the run has accumulated one match for every      *)
(* collected candidate the comparator matched.                             *)
C36_MatchKeptWhenSaveFails ==
    \A r \in DOMAIN runs :
        Batched =>
            /\ \A u \in Range(runs[r].units) :
                  (u.pc = "done" /\ ComparatorMatched(u.fate)) => u.result = <<u.cand>>
            /\ Len(runs[r].matches.bing) + Len(runs[r].matches.google)
                  = Cardinality({k \in DOMAIN runs[r].fates :
                                    ComparatorMatched(runs[r].fates[k])})

(* C37: when an invocation of the synchronous handler has returned, the    *)
(* file it wrote under /tmp for the probe has been removed, whether it     *)
(* answered 200 or failed at the provider call, at the upload, at the      *)
(* metadata write or at the retrieval of the secrets.                      *)
C37_TempFileRemovedOnReturn ==
    \A r \in DOMAIN runs :
        (Synchronous /\ runs[r].pc = "done") => runs[r].tmp # "written"

\* the calls of getSecrets that have returned a value
ReturnedCalls == {c \in DOMAIN secretCalls : secretCalls[c].pc = "returned"}

\* the step starts a call of getSecrets
StartsCall == Len(secretCalls') > Len(secretCalls)

\* the first two parts of C38, which hold: a call started after a call has
\* returned a value returns the cached value at once and does not contact
\* the service; a call that throws leaves cachedSecrets as it was, and a
\* call started while cachedSecrets is empty contacts the service
SecretsCachedAfterSuccess ==
    [][/\ (StartsCall /\ ReturnedCalls # {}) =>
             /\ Last(secretCalls').pc = "returned"
             /\ ~Last(secretCalls').contacted
             /\ Last(secretCalls').value = cachedSecrets
             /\ cachedSecrets # Null
       /\ \A c \in DOMAIN secretCalls :
             (secretCalls[c].pc = "await" /\ secretCalls'[c].pc = "threw")
             => cachedSecrets' = cachedSecrets
       /\ (StartsCall /\ cachedSecrets = Null) =>
             /\ Last(secretCalls').pc = "await"
             /\ Last(secretCalls').contacted]_vars

(* C38: a call of getSecrets started after one has returned a value        *)
(* returns the cached value without contacting the service; a call that    *)
(* throws leaves the cache as it was, so that a call started on an empty   *)
(* cache contacts the service; and all the calls that have returned,       *)
(* those that overlapped before the cache was filled included, have        *)
(* returned the same value.                                                *)
C38_OneSecretsValue ==
    [][/\ (StartsCall /\ ReturnedCalls # {}) =>
             /\ ~Last(secretCalls').contacted
             /\ Last(secretCalls').value = cachedSecrets
       /\ \A c \in DOMAIN secretCalls :
             (secretCalls[c].pc = "await" /\ secretCalls'[c].pc = "threw")
             => cachedSecrets' = cachedSecrets
       /\ (StartsCall /\ cachedSecrets = Null) => Last(secretCalls').contacted
       /\ \A c, d \in DOMAIN secretCalls' :
             (secretCalls'[c].pc = "returned" /\ secretCalls'[d].pc = "returned")
             => secretCalls'[c].value = secretCalls'[d].value]_vars

====
